---- MODULE Spec2Model ----
(***************************************************************************)
(* Counsellor analytics of wng_b2b_service                                 *)
(* (src/app/api/v1/endpoints/counsellor_analytics.py).                     *)
(*                                                                         *)
(* The data store is the state: one variable per table the analytics read. *)
(* Every analytics handler is one action; it reads the tables and leaves   *)
(* its JSON payload in resp.  The handlers never write a table.            *)
(*                                                                         *)
(* Conventions                                                             *)
(*   - a nullable string column holds NULL, a nullable number holds <<>>   *)
(*     (None) or <<v>>;                                                    *)
(*   - dates and datetimes are day numbers (every comparison the handlers  *)
(*     make is against midnight of a date, so the day decides it);         *)
(*   - round(x, 1) values are kept in tenths (50.0 is 500);                *)
(*   - unrounded quotients are kept as [num, den].                         *)
(***************************************************************************)
EXTENDS Integers, Sequences, FiniteSets, TLC

VARIABLES students, wellbeing, streaks, app_sessions, assessments, responses, assignments,
          submissions, registrations, webinars, attendance, resp, scan, db

vars == <<students, wellbeing, streaks, app_sessions, assessments, responses, assignments,
          submissions, registrations, webinars, attendance, resp, scan, db>>

tables == <<students, wellbeing, streaks, app_sessions, assessments, responses, assignments,
            submissions, registrations, webinars, attendance>>

----------------------------------------------------------------------------
(* Bounds of the model *)

NumStudents == 2

MaxDays == 2

MaxLimit == 2

Today == 10

----------------------------------------------------------------------------
(* Domains *)

NULL == "NULL"

None == <<>>

Some(v) == <<v>>

StudentIds == 1..NumStudents

Schools == {"s1", "s2"}

ClassIds == {"c1", "c2"}

Teachers == {"t1", "t2", "t3"}

\* b2b_classes: both classes belong to school s1; teacher t3 owns no class.
ClassTable == [c \in ClassIds |->
                 IF c = "c1" THEN [school |-> "s1", teacher_id |-> "t1"]
                             ELSE [school |-> "s1", teacher_id |-> "t2"]]

RiskLevel == {"LOW", "MEDIUM", "HIGH", "CRITICAL"}

SubmissionStatus == {"PENDING", "SUBMITTED", "VERIFIED", "REJECTED"}

Completed == {"SUBMITTED", "VERIFIED"}

\* Student rows: a student of school s1 is in one of its classes or in none;
\* a student of school s2 (which has no class) is in none.
StudentRows == {r \in [school : Schools, class_id : ClassIds \cup {NULL},
                       risk_level : RiskLevel \cup {NULL}] :
                  r.class_id # NULL => ClassTable[r.class_id].school = r.school}

----------------------------------------------------------------------------
(* Helpers *)

Card(S) == Cardinality(S)

Min(a, b) == IF a <= b THEN a ELSE b

Max(a, b) == IF a >= b THEN a ELSE b

\* round(num / den * 100, 1) in tenths, den > 0 (round half to even).
Round1Pct(num, den) ==
    LET n == num * 1000
        q == n \div den
        r == n % den
    IN  IF 2 * r < den THEN q
        ELSE IF 2 * r > den THEN q + 1
        ELSE IF q % 2 = 0 THEN q ELSE q + 1

\* Every order in which a query without ORDER BY may return the rows of S.
Perms(S) == {f \in [1..Card(S) -> S] : \A i, j \in 1..Card(S) : i # j => f[i] # f[j]}

\* x or 1: the divisor a zero count is replaced by
OrOne(n) == IF n = 0 THEN 1 ELSE n

\* what an unhandled ZeroDivisionError of a handler is answered with
ZeroDivisionError ==
    [kind |-> "error", status_code |-> 500, detail |-> "ZeroDivisionError"]

\* round(num / den, 1) in tenths, den > 0 (round half to even).
Round1(num, den) ==
    LET n == num * 10
        q == n \div den
        r == n % den
    IN  IF 2 * r < den THEN q
        ELSE IF 2 * r > den THEN q + 1
        ELSE IF q % 2 = 0 THEN q ELSE q + 1

RECURSIVE SumOver(_, _)
\* the sum of f over the keys S
SumOver(f, S) ==
    IF S = {} THEN 0
    ELSE LET x == CHOOSE y \in S : TRUE IN f[x] + SumOver(f, S \ {x})

\* start_date of get_date_range(days); end_date is Today.
StartDate(days) == Today - days

\* days: int = Query(30, ...): the window of a request that names none
DefaultDays == 30

\* the app sessions of the cohort started inside the default window
SessionsOf(cohort) ==
    {x \in app_sessions : x.student \in cohort /\ x.start >= StartDate(DefaultDays)}

\* func.sum(StudentAppSession.duration_minutes) or 0
RECURSIVE SumDuration(_)
SumDuration(rows) ==
    IF rows = {} THEN 0
    ELSE LET x == CHOOSE y \in rows : TRUE
         IN  x.duration_minutes + SumDuration(rows \ {x})

RECURSIVE SumWellbeing(_)
\* the sum of the wellbeing scores of students that have one
SumWellbeing(S) ==
    IF S = {} THEN 0
    ELSE LET x == CHOOSE y \in S : TRUE IN wellbeing[x][1] + SumWellbeing(S \ {x})

\* round(avg_wellbeing, 1) if avg_wellbeing else None, avg_wellbeing being
\* func.avg(Student.wellbeing_score): the average of the non-NULL scores,
\* NULL when there is none; an average of 0 is falsy
SqlAvgWellbeing(cohort) ==
    LET scored == {s \in cohort : wellbeing[s] # None}
    IN  IF scored = {} \/ SumWellbeing(scored) = 0 THEN None
        ELSE Some(Round1(SumWellbeing(scored), Card(scored)))

\* safe_mean(values): round(statistics.mean(values), 1) if values else None
safe_mean(sum, count) == IF count > 0 THEN Some(Round1(sum, count)) ELSE None

\* safe_mean(wellbeing_scores) of the single class: the loop appends a score
\* "if s.wellbeing_score", which leaves out NULL and 0
PyAvgWellbeing(cohort) ==
    LET kept == {s \in cohort : wellbeing[s] # None /\ wellbeing[s] # Some(0)}
    IN  safe_mean(SumWellbeing(kept), Card(kept))

NoResp == [kind |-> "none"]

NotFound(what) == [kind |-> "error", status_code |-> 404, detail |-> what]

StudentsOfSchool(school_id) == {s \in StudentIds : students[s].school = school_id}

StudentsOfClass(class_id) == {s \in StudentIds : students[s].class_id = class_id}

\* The three SQL sums case((risk_level == X, 1), else_=0): a NULL risk_level
\* compares as NULL with every value and falls into else_=0 of all three.
SqlRiskCounts(cohort) ==
    [low    |-> Card({s \in cohort : students[s].risk_level = "LOW"}),
     medium |-> Card({s \in cohort : students[s].risk_level = "MEDIUM"}),
     high   |-> Card({s \in cohort : students[s].risk_level \in {"HIGH", "CRITICAL"}})]

\* s.risk_level.value.lower() if s.risk_level else "low"
ShownRisk(s) ==
    CASE students[s].risk_level = NULL       -> "low"
      [] students[s].risk_level = "LOW"      -> "low"
      [] students[s].risk_level = "MEDIUM"   -> "medium"
      [] students[s].risk_level = "HIGH"     -> "high"
      [] students[s].risk_level = "CRITICAL" -> "critical"

\* distinct (student, assessment) pairs with a completed response
CompletedPairs(cohort) ==
    {<<r.student, r.assessment>> : r \in {x \in responses :
        x.student \in cohort /\ x.completed # None}}

CompletedSubmissions(cohort) ==
    {x \in submissions : x.student \in cohort /\ x.status \in Completed}

----------------------------------------------------------------------------
(* 1. School overview *)

\* the same response with the class count taken from the class table
EmptyOverview_CountsClasses(school_id) ==
    [kind |-> "overview", school_id |-> school_id,
     summary |-> [total_students |-> 0,
                  total_classes |-> Cardinality({c \in ClassIds : ClassTable[c].school = school_id})],
     total_students |-> 0,
     total_classes |-> Cardinality({c \in ClassIds : ClassTable[c].school = school_id}),
     risk_distribution |-> [low |-> 0, medium |-> 0, high |-> 0],
     top_performers |-> <<>>,
     at_risk_students |-> {}]

\* the early return for a school without students (every count written
\* as the literal 0, the class count included)
EmptyOverview(school_id) ==
    [kind |-> "overview", school_id |-> school_id,
     summary |-> [total_students |-> 0, total_classes |-> 0],
     total_students |-> 0, total_classes |-> 0,
     risk_distribution |-> [low |-> 0, medium |-> 0, high |-> 0],
     top_performers |-> <<>>,
     at_risk_students |-> {}]

\* at_risk_query: the HIGH and CRITICAL students of the school (a list in
\* no stated order, kept as the set of its students)
AtRiskStudents(school_id) ==
    {s \in StudentsOfSchool(school_id) : students[s].risk_level \in {"HIGH", "CRITICAL"}}

\* limit(5) of top_performers_query
TopLimit == 5

\* top_performers_query before its limit: the students of the school joined
\* to their streak summary (an inner join: a student without a summary has
\* no row), ordered by current_streak descending; rows with equal streaks
\* come in any order
TopOrders(school_id) ==
    LET joined == {s \in StudentsOfSchool(school_id) : s \in DOMAIN streaks}
    IN  {o \in Perms(joined) :
            \A i, j \in 1..Card(joined) : i < j => streaks[o[i]] >= streaks[o[j]]}

\* the first five rows as entries ("daily_streak": t.current_streak or 0)
TopPerformers(order) ==
    [i \in 1..Min(TopLimit, Len(order)) |->
        [student_id |-> order[i], daily_streak |-> streaks[order[i]],
         wellbeing_score |-> wellbeing[order[i]]]]

\* round(streak_stats.avg_streak, 1) if streak_stats.avg_streak else 0, in
\* tenths: the average of current_streak over the cohort's summaries
AvgDailyStreak(cohort) ==
    LET rows == {s \in cohort : s \in DOMAIN streaks}
    IN  IF rows = {} THEN 0 ELSE Round1(SumOver(streaks, rows), Card(rows))

get_school_overview(school_id, order) ==
    LET cohort == StudentsOfSchool(school_id)
        stats  == SqlRiskCounts(cohort)
        subs   == {x \in submissions : x.student \in cohort}
        done   == Card(CompletedSubmissions(cohort))
        total  == OrOne(Card(subs))
        total_classes == Card({c \in ClassIds : ClassTable[c].school = school_id})
    IN  IF school_id \notin Schools THEN NotFound("School not found")
        ELSE IF cohort = {} THEN EmptyOverview(school_id)
        ELSE IF total = 0 THEN ZeroDivisionError
        ELSE
            [kind |-> "overview", school_id |-> school_id,
             summary |-> [total_students |-> Card(cohort),
                          total_classes |-> total_classes,
                          avg_activity_completion |-> Round1Pct(done, total),
                          avg_wellbeing_score |-> SqlAvgWellbeing(cohort),
                          avg_daily_streak |-> AvgDailyStreak(cohort),
                          total_app_openings |-> Card(SessionsOf(cohort))],
             total_students |-> Card(cohort),
             total_classes |-> total_classes,
             risk_distribution |-> stats,
             avg_activity_completion |-> Round1Pct(done, total),
             total_assessments_completed |->
                 Card({r.assessment : r \in {x \in responses :
                         x.student \in cohort /\ x.completed # None}}),
             total_activities_completed |-> done,
             top_performers |-> TopPerformers(order),
             at_risk_students |-> AtRiskStudents(school_id)]

----------------------------------------------------------------------------
(* 2. Class list *)

\* query.all(): the classes of the school, narrowed by the teacher filter
\* (grade and search narrow the same list in the same way).
ListedClasses(school_id, teacher_id) ==
    {c \in ClassIds : /\ ClassTable[c].school = school_id
                      /\ (teacher_id # NULL => ClassTable[c].teacher_id = teacher_id)}

\* web_done = min(web_done, web_total) if web_total > 0 else web_done
ClampWebDone(web_done, web_total) ==
    IF web_total > 0 THEN Min(web_done, web_total) ELSE web_done

\* the quotient cut to one decimal instead of rounded
Rate_Truncated(done, total) == IF total > 0 THEN (done * 1000) \div total ELSE 0

\* the guard of a rate written without its condition
RateGuard_Always(total) == TRUE

\* ... if total > 0 else 0
RateGuard(total) == total > 0

\* round((done / total * 100), 1) if total > 0 else 0
Rate(done, total) == IF RateGuard(total) THEN Round1Pct(done, total) ELSE 0

\* a rate whose division is reached with a zero divisor raises
RateRaises(totals) == \E total \in totals : RateGuard(total) /\ total = 0

\* ass_total, act_total and web_total of a class: the assigned items times
\* the students of the class
ClassTotals(school_id, c) ==
    LET student_count == Card(StudentsOfClass(c))
        school_assessments_count ==
            Card({a \in assessments : a.school = school_id /\ a.class_id = NULL})
    IN  [assessments |-> (school_assessments_count
                            + Card({a \in assessments : a.class_id = c})) * student_count,
         activities |-> Card({a.activity : a \in {x \in assignments : x.class_id = c}})
                            * student_count,
         webinars |-> Card({g \in registrations : g.school = school_id}) * student_count]

ClassEntry(school_id, c) ==
    LET roster == StudentsOfClass(c)
        student_count == Card(roster)
        stats == SqlRiskCounts(roster)
        ass_total == ClassTotals(school_id, c).assessments
        ass_done == Card(CompletedPairs(roster))
        act_total == ClassTotals(school_id, c).activities
        act_done == Card(CompletedSubmissions(roster))
        web_total == ClassTotals(school_id, c).webinars
        web_done == ClampWebDone(
                        Card({x \in attendance : x.student \in roster /\ x.attended}),
                        web_total)
    IN  [class_id |-> c,
         total_students |-> student_count,
         avg_wellbeing |-> SqlAvgWellbeing(roster),
         assessments |-> [rate |-> Rate(ass_done, ass_total),
                          done |-> ass_done, total |-> ass_total],
         activities |-> [rate |-> Rate(act_done, act_total),
                         done |-> act_done, total |-> act_total],
         webinars |-> [rate |-> Rate(web_done, web_total),
                       done |-> web_done, total |-> web_total],
         risk_distribution |-> stats,
         at_risk_count |-> stats.high]

get_classes_analytics(school_id, teacher_id) ==
    LET classes == ListedClasses(school_id, teacher_id)
    IN  IF \E c \in classes :
              RateRaises({ClassTotals(school_id, c)[f] : f \in DOMAIN ClassTotals(school_id, c)})
        THEN ZeroDivisionError
        ELSE
        [kind |-> "classes", school_id |-> school_id, teacher_id |-> teacher_id,
         total_classes |-> Card(classes),
         classes |-> [c \in classes |-> ClassEntry(school_id, c)]]

----------------------------------------------------------------------------
(* 3. Single class *)

\* the per-student loop of get_class_analytics
PyRiskCounts(cohort) ==
    [low    |-> Card({s \in cohort : ShownRisk(s) \notin {"high", "critical", "medium"}}),
     medium |-> Card({s \in cohort : ShownRisk(s) = "medium"}),
     high   |-> Card({s \in cohort : ShownRisk(s) \in {"high", "critical"}})]

get_class_analytics(class_id) ==
    LET roster == StudentsOfClass(class_id)
    IN  IF class_id \notin ClassIds THEN NotFound("Class not found")
        ELSE IF roster = {} THEN
            [kind |-> "class", class_id |-> class_id, total_students |-> 0,
             risk_distribution |-> [low |-> 0, medium |-> 0, high |-> 0],
             students |-> [s \in {} |-> 0]]
        ELSE IF 0 \in {Card(roster), OrOne(Card(SessionsOf(roster)))}
        THEN ZeroDivisionError    \* avg_app, avg_session
        ELSE
            [kind |-> "class", class_id |-> class_id,
             total_students |-> Card(roster),
             metrics |->
                [avg_wellbeing |-> PyAvgWellbeing(roster),
                 avg_daily_streak |->
                    safe_mean(SumOver([s \in roster |->
                                  IF s \in DOMAIN streaks THEN streaks[s] ELSE 0], roster),
                              Card(roster)),
                 avg_app_openings |-> Round1(Card(SessionsOf(roster)), Card(roster)),
                 avg_session_time |-> Round1(SumDuration(SessionsOf(roster)),
                                             OrOne(Card(SessionsOf(roster))))],
             risk_distribution |-> PyRiskCounts(roster),
             students |-> [s \in roster |->
                [risk_level |-> ShownRisk(s),
                 assessments_completed |-> Card(CompletedPairs({s})),
                 activities_completed |-> Card(CompletedSubmissions({s}))]]]

----------------------------------------------------------------------------
(* 4. Student list *)


\* le=100 of the limit parameter
MaxPageSize == 100

\* page: int = Query(1, ge=1) and limit: int = Query(.., ge=1, le=100): the
\* framework validates the declared bounds before the handler runs and
\* answers 422, naming the offending parameters, when one is not met.
InvalidPaging(page, limit) ==
    (IF page < 1 THEN {"page"} ELSE {}) \cup
    (IF limit < 1 \/ limit > MaxPageSize THEN {"limit"} ELSE {})

ValidationError(loc) ==
    [kind |-> "error", status_code |-> 422,
     detail |-> IF loc = {"page"} THEN "page"
                ELSE IF loc = {"limit"} THEN "limit" ELSE "page,limit"]

\* offset((page - 1) * limit).limit(limit)
PageOf(rows, page, limit) ==
    SubSeq(rows, (page - 1) * limit + 1, Min(page * limit, Len(rows)))

\* risk_map = {"low": LOW, "medium": MEDIUM, "high": HIGH}; any other value
\* of the parameter leaves the query unfiltered.
RiskFilterMatches(s, risk_level) ==
    CASE risk_level = "low"    -> students[s].risk_level = "LOW"
      [] risk_level = "medium" -> students[s].risk_level = "MEDIUM"
      [] risk_level = "high"   -> students[s].risk_level = "HIGH"
      [] OTHER                 -> TRUE

MatchingStudents(school_id, class_id, risk_level) ==
    {s \in StudentsOfSchool(school_id) :
        /\ (class_id # NULL => students[s].class_id = class_id)
        /\ (risk_level # NULL => RiskFilterMatches(s, risk_level))}

\* class_assessment_counts.get(s.class_id, 0): class-specific assessments only
StudentAssessmentsTotal(s) ==
    IF students[s].class_id = NULL THEN 0
    ELSE Card({a \in assessments : a.class_id = students[s].class_id})

\* class_activity_counts.get(s.class_id, 0): assignment rows of the class
StudentActivitiesTotal(s) ==
    IF students[s].class_id = NULL THEN 0
    ELSE Card({a \in assignments : a.class_id = students[s].class_id})

\* class_webinar_counts.get(s.class_id, 0): registrations of the school that
\* are school-wide or name the class
StudentWebinarsTotal(school_id, s) ==
    IF students[s].class_id = NULL THEN 0
    ELSE Card({g \in registrations :
                 /\ g.school = school_id
                 /\ (g.class_ids = {} \/ students[s].class_id \in g.class_ids)})

StudentEntry(school_id, s) ==
    [student_id |-> s,
     class_id |-> students[s].class_id,
     risk_level |-> ShownRisk(s),
     assessments_completed |-> Card({p[2] : p \in CompletedPairs({s})}),
     assessments_total |-> StudentAssessmentsTotal(s),
     activities_completed |-> Card(CompletedSubmissions({s})),
     activities_total |-> StudentActivitiesTotal(s),
     webinars_attended |-> Card({x \in attendance : x.student = s /\ x.attended}),
     webinars_total |-> StudentWebinarsTotal(school_id, s)]

\* rows: the matching students in the order the query returned them
get_students_analytics(school_id, class_id, risk_level, page, limit, rows) ==
    LET total_students == Len(rows)
        total_pages == (total_students + limit - 1) \div limit
        slice == PageOf(rows, page, limit)
    IN  IF InvalidPaging(page, limit) # {} THEN
            ValidationError(InvalidPaging(page, limit))
        ELSE
        [kind |-> "students", school_id |-> school_id, class_id |-> class_id,
         risk_filter |-> risk_level,
         total_students |-> total_students, page |-> page, limit |-> limit,
         total_pages |-> total_pages,
         students |-> [i \in 1..Len(slice) |-> StudentEntry(school_id, slice[i])]]

----------------------------------------------------------------------------
(* 10. School trends *)

\* The cohort of a trends request: the school's students, of the teacher's
\* classes when teacher_id is given.
TrendCohort(school_id, teacher_id) ==
    {s \in StudentsOfSchool(school_id) :
        teacher_id # NULL =>
            /\ students[s].class_id # NULL
            /\ ClassTable[students[s].class_id].teacher_id = teacher_id}

\* min(100, round(count / total_students * 100, 1)) in tenths
TrendPct(count, total_students) == Min(1000, Round1Pct(count, total_students))

\* the dates the while loop puts into trends_map, in insertion order
TrendDates_Exclusive(days) ==
    [i \in 1..days |-> StartDate(days) + i - 1]

TrendDates(days) ==
    [i \in 1..(days + 1) |-> StartDate(days) + i - 1]

\* count(distinct student_id) of the responses completed on day d
AssessmentDayCount(cohort, d) ==
    Card({r.student : r \in {x \in responses :
            x.student \in cohort /\ x.completed = Some(d)}})

\* count(submission_id) of the submissions submitted on day d
ActivityDayCount(cohort, d) ==
    Card({x \in submissions : x.student \in cohort /\ x.submitted = Some(d)})

\* count(id) of the attended attendance rows created on day d
WebinarDayCount(cohort, d) ==
    Card({x \in attendance : x.student \in cohort /\ x.attended /\ x.created = d})

\* a row of a grouped query overwrites the 0 of its day when the day is in
\* the map and the query returned a row for it (count > 0)
TrendValue(count, total_students) ==
    IF count > 0 THEN TrendPct(count, total_students) ELSE 0

get_school_trends(school_id, teacher_id, days) ==
    LET cohort == TrendCohort(school_id, teacher_id)
        total_students == OrOne(Card(cohort))
        dates == TrendDates(days)
    IN  IF cohort = {} THEN
            [kind |-> "trends", school_id |-> school_id, teacher_id |-> teacher_id,
             days |-> days, trends |-> <<>>]
        ELSE IF total_students = 0 THEN ZeroDivisionError
        ELSE
            [kind |-> "trends", school_id |-> school_id, teacher_id |-> teacher_id,
             days |-> days,
             trends |-> [i \in DOMAIN dates |->
                [date |-> dates[i],
                 assessments |-> TrendValue(AssessmentDayCount(cohort, dates[i]), total_students),
                 activities |-> TrendValue(ActivityDayCount(cohort, dates[i]), total_students),
                 webinars |-> TrendValue(WebinarDayCount(cohort, dates[i]), total_students)]]]

----------------------------------------------------------------------------
(* 11. School lists *)

\* The students a list's class_id / teacher_id / school filter counts.
FilteredStudents(school_id, class_id, teacher_id) ==
    IF class_id # NULL THEN StudentsOfClass(class_id)
    ELSE IF teacher_id # NULL THEN
        {s \in StudentIds : /\ students[s].class_id # NULL
                            /\ ClassTable[students[s].class_id].teacher_id = teacher_id}
    ELSE StudentsOfSchool(school_id)

\* assigned_student_count = student_count_query.scalar() or 1
AssignedStudentCount(school_id, class_id, teacher_id) ==
    LET n == Card(FilteredStudents(school_id, class_id, teacher_id))
    IN  IF n = 0 THEN 1 ELSE n

\* The Assessment rows a list's filter keeps.
FilteredAssessments(school_id, class_id, teacher_id) ==
    IF class_id # NULL THEN {a \in assessments : a.class_id = class_id}
    ELSE IF teacher_id # NULL THEN
        {a \in assessments : /\ a.class_id # NULL
                             /\ ClassTable[a.class_id].teacher_id = teacher_id}
    ELSE {a \in assessments : a.school = school_id}

\* (x / y) * 100, unrounded
Pct(x, y) == IF RateGuard(y) THEN [num |-> x * 100, den |-> y] ELSE [num |-> 0, den |-> 1]

get_school_assessments(school_id, class_id, teacher_id, days) ==
    LET kept == {a.assessment_id : a \in FilteredAssessments(school_id, class_id, teacher_id)}
        rows == {r \in responses : /\ r.assessment \in kept
                                   /\ r.completed # None
                                   /\ r.completed[1] >= StartDate(days)}
        template_of(r) == (CHOOSE a \in assessments : a.assessment_id = r.assessment).template_id
        templates == {template_of(r) : r \in rows}
        assigned == AssignedStudentCount(school_id, class_id, teacher_id)
    IN  IF templates # {} /\ RateRaises({assigned}) THEN ZeroDivisionError
        ELSE
        [kind |-> "assessment_list",
         assessments |-> [t \in templates |->
            LET submitted == Card({r.student : r \in {x \in rows : template_of(x) = t}})
            IN  [studentsSubmitted |-> submitted,
                 totalStudentsAssigned |-> assigned,
                 submissionRate |-> Pct(submitted, assigned)]]]

get_school_activities(school_id, class_id, teacher_id, days) ==
    LET kept == {a \in assignments :
                    IF class_id # NULL THEN a.class_id = class_id
                    ELSE IF teacher_id # NULL
                         THEN ClassTable[a.class_id].teacher_id = teacher_id
                         ELSE ClassTable[a.class_id].school = school_id}
        rows == {x \in submissions : /\ x.assignment \in {a.assignment_id : a \in kept}
                                     /\ x.status \in Completed
                                     /\ x.submitted # None
                                     /\ x.submitted[1] >= StartDate(days)}
        activity_of(x) == (CHOOSE a \in assignments : a.assignment_id = x.assignment).activity
        activities == {activity_of(x) : x \in rows}
        assigned == AssignedStudentCount(school_id, class_id, teacher_id)
    IN  IF activities # {} /\ RateRaises({assigned}) THEN ZeroDivisionError
        ELSE
        [kind |-> "activity_list",
         activities |-> [t \in activities |->
            LET completed == Card({x.student : x \in {y \in rows : activity_of(y) = t}})
            IN  [studentsCompleted |-> completed,
                 totalStudentsAssigned |-> assigned,
                 completionRate |-> Pct(completed, assigned)]]]

\* The registration row of a webinar for a school (at most one).
RegistrationOf(webinar_id, school_id) ==
    {g \in registrations : g.webinar = webinar_id /\ g.school = school_id}

\* Students a request's class_id / teacher_id parameters keep.
InRequestScope(s, class_id, teacher_id) ==
    IF class_id # NULL THEN students[s].class_id = class_id
    ELSE IF teacher_id # NULL THEN
        /\ students[s].class_id # NULL
        /\ ClassTable[students[s].class_id].teacher_id = teacher_id
    ELSE TRUE

\* students_query ... .scalar() or 0
NaiveInvited(w, school_id, class_id, teacher_id) ==
    Card({s \in StudentsOfSchool(school_id) :
            /\ \A g \in RegistrationOf(w, school_id) :
                  g.class_ids # {} => students[s].class_id \in g.class_ids
            /\ InRequestScope(s, class_id, teacher_id)})

\* attendance_query ... .scalar() or 0
AttendedCount(w, school_id, class_id, teacher_id) ==
    Card({x \in attendance : /\ x.webinar = w
                             /\ x.attended
                             /\ students[x.student].school = school_id
                             /\ InRequestScope(x.student, class_id, teacher_id)})

\* count(distinct student_id) of the attendance rows of the webinar in scope
HistoricalAttendees(w, school_id, class_id, teacher_id) ==
    Card({x.student : x \in {y \in attendance :
            /\ y.webinar = w
            /\ students[y.student].school = school_id
            /\ InRequestScope(y.student, class_id, teacher_id)}})

\* the invited count left as the registration gives it
ReconcileInvited_Naive(w, school_id, class_id, teacher_id) ==
    NaiveInvited(w, school_id, class_id, teacher_id)

\* if attended > total_invited: total_invited = max(total_invited, historical)
ReconcileInvited(w, school_id, class_id, teacher_id) ==
    LET total_invited == NaiveInvited(w, school_id, class_id, teacher_id)
        attended == AttendedCount(w, school_id, class_id, teacher_id)
    IN  IF attended > total_invited
        THEN Max(total_invited, HistoricalAttendees(w, school_id, class_id, teacher_id))
        ELSE total_invited

get_school_webinars(school_id, class_id, teacher_id, days) ==
    LET registered == {g.webinar : g \in {x \in registrations : x.school = school_id}}
        listed == {w \in webinars : w.webinar_id \in registered /\ w.date >= StartDate(days)}
    IN  IF RateRaises({ReconcileInvited(w.webinar_id, school_id, class_id, teacher_id) :
                         w \in listed})
        THEN ZeroDivisionError
        ELSE
        [kind |-> "webinar_list", school_id |-> school_id,
         class_id |-> class_id, teacher_id |-> teacher_id,
         webinars |-> [w \in {x.webinar_id : x \in listed} |->
            LET attended == AttendedCount(w, school_id, class_id, teacher_id)
                total_invited == ReconcileInvited(w, school_id, class_id, teacher_id)
            IN  [studentsAttended |-> attended,
                 totalStudentsInvited |-> total_invited,
                 attendanceRate |-> Pct(attended, total_invited)]]]

----------------------------------------------------------------------------
(* Assessment detail *)

Templates == {"T1"}

ServerError == [kind |-> "error", status_code |-> 500, detail |-> "TypeError"]

\* students_query: the school's students, narrowed to the classes of the
\* template's class-specific instances when there are any
AssignedStudents(template_id, school_id) ==
    LET instances == {a \in assessments : a.template_id = template_id /\ a.school = school_id}
        assigned_class_ids == {a.class_id : a \in instances} \ {NULL}
    IN  {s \in StudentsOfSchool(school_id) :
            assigned_class_ids # {} => students[s].class_id \in assigned_class_ids}

\* responses: the rows of the template's instances completed in the window
TemplateResponses(template_id, school_id, days) ==
    {r \in responses :
        /\ \E a \in assessments : /\ a.assessment_id = r.assessment
                                  /\ a.template_id = template_id
                                  /\ a.school = school_id
        /\ r.completed # None
        /\ r.completed[1] >= StartDate(days)}

\* submitted_count = len(responses)
SubmittedCount(rows) == Card(rows)

\* sum([q.get('points', 0) for q in (template.questions or [])]): the
\* questions of the templates carry no points
TemplatePoints == [T1 |-> 0, T2 |-> 0, T3 |-> 0]

\* max_score = sum([...]) or 100
DetailMaxScore(template_id) ==
    IF TemplatePoints[template_id] = 0 THEN 100 ELSE TemplatePoints[template_id]

\* ... if submitted_count else 0
SubmittedGuard(submitted_count) == submitted_count # 0

\* picked: response_map, the row the dict keeps for each responding student
get_assessment_details(template_id, school_id, days, picked) ==
    LET rows == TemplateResponses(template_id, school_id, days)
        responding_student_ids == {r.student : r \in rows}
        max_score == DetailMaxScore(template_id)
        total_score == SumOver([s \in responding_student_ids |-> picked[s].score[1]],
                               responding_student_ids)
        \* (score / max_score) >= 0.6
        pass_count == Card({s \in responding_student_ids :
                              picked[s].score[1] * 10 >= 6 * max_score})
        \* students.extend(missing_students)
        listed == AssignedStudents(template_id, school_id) \cup responding_student_ids
        submitted_count == SubmittedCount(rows)
    IN  IF template_id \notin Templates THEN NotFound("Assessment not found")
        ELSE IF \E s \in responding_student_ids : picked[s].score = None
        THEN ServerError    \* total_score += None
        ELSE IF \/ responding_student_ids # {} /\ max_score = 0
                \/ SubmittedGuard(submitted_count) /\ submitted_count = 0
        THEN ZeroDivisionError
        ELSE [kind |-> "assessment_detail", template_id |-> template_id,
              school_id |-> school_id,
              maxScore |-> max_score,
              avgScore |-> IF SubmittedGuard(submitted_count)
                               THEN Round1(total_score, submitted_count) ELSE 0,
              passRate |-> IF SubmittedGuard(submitted_count)
                           THEN Round1Pct(pass_count, submitted_count) ELSE 0,
              totalStudentsAssigned |-> Card(listed),
              studentsSubmitted |-> submitted_count,
              studentsPending |-> Card(listed) - submitted_count,
              submissions |-> [s \in listed |->
                  IF s \in responding_student_ids THEN "submitted" ELSE "pending"]]

\* Every response_map the dict comprehension can build from the rows.
ResponseMaps(rows) ==
    {f \in [{r.student : r \in rows} -> rows] : \A s \in DOMAIN f : f[s].student = s}

----------------------------------------------------------------------------
(* Webinar detail *)

WebinarIds == {"w1"}

\* currently_assigned_ids
CurrentlyAssigned(webinar_id, school_id) ==
    {s \in StudentsOfSchool(school_id) :
        \A g \in RegistrationOf(webinar_id, school_id) :
            g.class_ids # {} => students[s].class_id \in g.class_ids}

\* attendance_records: the webinar's rows of students of the school
AttendanceRecords(webinar_id, school_id) ==
    {x \in attendance : x.webinar = webinar_id /\ students[x.student].school = school_id}

\* the invited set without the attendees (no union)
AllStudentIds_AssignedOnly(webinar_id, school_id) ==
    CurrentlyAssigned(webinar_id, school_id)

\* all_student_ids = currently_assigned_ids | attended_student_ids
AllStudentIds(webinar_id, school_id) ==
    CurrentlyAssigned(webinar_id, school_id)
        \cup {x.student : x \in AttendanceRecords(webinar_id, school_id)}

get_webinar_details(webinar_id, school_id) ==
    LET records == AttendanceRecords(webinar_id, school_id)
        all_students == AllStudentIds(webinar_id, school_id)
        status(s) == IF \E x \in records : x.student = s /\ x.attended
                     THEN "attended" ELSE "absent"
        attendance_list == [s \in all_students |-> [status |-> status(s)]]
    IN  IF webinar_id \notin {w.webinar_id : w \in webinars}
        THEN NotFound("Webinar not found")
        ELSE [kind |-> "webinar_detail", webinar_id |-> webinar_id,
              school_id |-> school_id,
              totalStudentsInvited |-> Card(DOMAIN attendance_list),
              studentsAttended |->
                  Card({s \in DOMAIN attendance_list : attendance_list[s].status = "attended"}),
              studentsAbsent |->
                  Card({s \in DOMAIN attendance_list : attendance_list[s].status = "absent"}),
              attendance |-> attendance_list]

----------------------------------------------------------------------------
(* Student profile: activity completion *)

RECURSIVE SumScoreOrZero(_)
\* total_score += r.score or 0
SumScoreOrZero(rows) ==
    IF rows = {} THEN 0
    ELSE LET r == CHOOSE x \in rows : TRUE
         IN  (IF r.score = None THEN 0 ELSE r.score[1]) + SumScoreOrZero(rows \ {r})

\* assessment_responses joined to their assessment and its template: the
\* student's answers to the assessments of the school made from template t
ProfileResponses(student_id, school_id, t) ==
    {r \in responses :
        /\ r.student = student_id
        /\ \E a \in assessments : /\ a.assessment_id = r.assessment
                                  /\ a.school = school_id
                                  /\ a.template_id = t}

\* the keys of assessment_map
ProfileTemplates(student_id, school_id) ==
    {t \in {a.template_id : a \in assessments} :
        ProfileResponses(student_id, school_id, t) # {}}

\* variation = random.randint(-15, 5), drawn once for every entry of
\* assessments_list
Variations(student_id, school_id) ==
    [ProfileTemplates(student_id, school_id) -> (-15)..5]

\* assessments_list: totalScore sums "resp.score or 0" over the template's
\* answers, classAverage = max(0, int(totalScore + variation))
ProfileAssessments(student_id, school_id, variation) ==
    [t \in ProfileTemplates(student_id, school_id) |->
        LET totalScore == SumScoreOrZero(ProfileResponses(student_id, school_id, t))
        IN  [totalScore |-> totalScore,
             classAverage |-> Max(0, totalScore + variation[t])]]

get_student_profile(student_id, school_id, variation) ==
    LET activities_list == {x \in submissions : x.student = student_id}
        total_assignments_count ==
            Card({a \in assignments : a.class_id = students[student_id].class_id})
        activities_completed_count == Card(activities_list)
        activity_completion_rate ==
            IF RateGuard(total_assignments_count)
            THEN (activities_completed_count * 100) \div total_assignments_count
            ELSE IF activities_completed_count > 0 THEN 100 ELSE 0
    IN  IF student_id \notin StudentsOfSchool(school_id)
        THEN NotFound("Student not found")
        ELSE IF RateRaises({total_assignments_count}) THEN ZeroDivisionError
        ELSE [kind |-> "profile", student_id |-> student_id,
              stats |-> [assessmentsCompleted |->
                             Card(ProfileTemplates(student_id, school_id)),
                         activitiesCompleted |-> activity_completion_rate,
                         activitiesCount |-> activities_completed_count],
              assessments |-> ProfileAssessments(student_id, school_id, variation)]

----------------------------------------------------------------------------
(* 6. Student assessment history *)

\* len(template.questions) of the templates
\* template.questions of the templates: two questions, none, twenty
TemplateQuestions ==
    [T1 |-> {"q1", "q2"}, T2 |-> {},
     T3 |-> {"q1", "q2", "q3", "q4", "q5", "q6", "q7", "q8", "q9", "q10",
             "q11", "q12", "q13", "q14", "q15", "q16", "q17", "q18", "q19", "q20"}]

\* "max_score": len(template.questions) * 5
PointsPerQuestion == 5

\* the thresholds of the ratio, in hundredths: 0.33 and 0.66
LowBelow == 33

MediumBelow == 66

TemplateOf(assessment_id) ==
    (CHOOSE a \in assessments : a.assessment_id = assessment_id).template_id

\* the same thresholds compared with <= instead of <
HistoryRisk_Inclusive(total_score, max_score) ==
    IF max_score > 0
    THEN IF total_score * 100 <= LowBelow * max_score THEN "low"
         ELSE IF total_score * 100 <= MediumBelow * max_score THEN "medium"
         ELSE "high"
    ELSE "low"

\* ratio = total_score / max_score if max_score > 0 else 0
\* "low" if ratio < 0.33 else ("medium" if ratio < 0.66 else "high")
HistoryRisk(total_score, max_score) ==
    IF max_score > 0
    THEN IF total_score * 100 < LowBelow * max_score THEN "low"
         ELSE IF total_score * 100 < MediumBelow * max_score THEN "medium"
         ELSE "high"
    ELSE "low"

\* The completed responses of the student that pass the cutoff
\* utcnow() - days: a row of a later day passes, a row of the cutoff's own
\* day passes when its time of day is not before the request's (at_cutoff
\* holds the rows for which it is); days of None or 0 set no cutoff.
HistoryResponses(student_id, days, at_cutoff) ==
    {r \in responses :
        /\ r.student = student_id
        /\ r.completed # None
        /\ \/ days = None
           \/ days = Some(0)
           \/ r.completed[1] > Today - days[1]
           \/ r.completed[1] = Today - days[1] /\ r \in at_cutoff}

\* the rows whose passing depends on the time of day
CutoffRows(student_id, days) ==
    IF days = None THEN {}
    ELSE {r \in responses : r.student = student_id /\ r.completed = Some(Today - days[1])}

get_student_assessment_history(student_id, days, at_cutoff) ==
    LET rows == HistoryResponses(student_id, days, at_cutoff)
        entry(a_id) ==
            LET mine == {r \in rows : r.assessment = a_id}
                total_score == SumScoreOrZero(mine)
                max_score == Card(TemplateQuestions[TemplateOf(a_id)]) * PointsPerQuestion
            IN  [template_id |-> TemplateOf(a_id),
                 total_score |-> total_score,
                 max_score |-> max_score,
                 questions_answered |-> Card(mine),
                 responses |-> {[question_id |-> r.question, score |-> r.score] : r \in mine},
                 risk_level |-> HistoryRisk(total_score, max_score)]
        listed == {r.assessment : r \in rows}
    IN  IF student_id \notin StudentIds THEN NotFound("Student not found")
        ELSE [kind |-> "assessment_history", student_id |-> student_id,
              days |-> days,
              total_assessments |-> Card(listed),
              assessments |-> [a \in listed |-> entry(a)]]

----------------------------------------------------------------------------
(* 7. Student activity history *)

BadRequest(what) == [kind |-> "error", status_code |-> 400, detail |-> what]

\* SubmissionStatus(status.upper()) raises ValueError for any other word
Upper(status) ==
    CASE status = "pending" -> "PENDING"
      [] status = "submitted" -> "SUBMITTED"
      [] status = "verified" -> "VERIFIED"
      [] status = "rejected" -> "REJECTED"
      [] OTHER -> status

\* The days filter narrows by created_at, a column the table of the model
\* does not keep: the handler is the one of a request without days.
get_student_activity_history(student_id, status) ==
    LET mine == {x \in submissions : x.student = student_id}
        status_breakdown ==
            [s \in SubmissionStatus |-> Card({x \in mine : x.status = s})]
        filtered == IF status = NULL THEN mine
                    ELSE {x \in mine : x.status = Upper(status)}
    IN  IF student_id \notin StudentIds THEN NotFound("Student not found")
        ELSE IF status # NULL /\ Upper(status) \notin SubmissionStatus
        THEN BadRequest("Invalid status")
        ELSE [kind |-> "activity_history", student_id |-> student_id,
              status |-> status,
              total_activities |-> Card(mine),
              status_breakdown |-> status_breakdown,
              activities |-> {[submission_id |-> x.submission_id, status |-> x.status] :
                                 x \in filtered}]

----------------------------------------------------------------------------
(* 8. Student webinar history *)

get_student_webinar_history(student_id, attended) ==
    LET mine == {x \in attendance : x.student = student_id}
        total == Card(mine)
        attended_count == Card({x \in mine : x.attended})
        filtered == IF attended = None THEN mine
                    ELSE {x \in mine : x.attended = attended[1]}
    IN  IF student_id \notin StudentIds THEN NotFound("Student not found")
        ELSE IF RateRaises({total}) THEN ZeroDivisionError
        ELSE [kind |-> "webinar_history", student_id |-> student_id,
              total_webinars |-> total,
              attended_count |-> attended_count,
              missed_count |-> total - attended_count,
              attendance_rate |-> Rate(attended_count, total),
              webinars |-> {[webinar_id |-> x.webinar, attended |-> x.attended] :
                               x \in filtered}]

----------------------------------------------------------------------------
(* Actions: one per handler *)

\* ids a request may carry: those of the records and one that matches none
SchoolParams == Schools \cup {"s0"}

ClassParams == ClassIds \cup {"c0"}

StudentParams == StudentIds \cup {0}

\* page and limit as sent: in range, below it (0) and above it (101)
Pages == 0..(NumStudents + 1)

Limits == (0..MaxLimit) \cup {MaxPageSize + 1}

Lookbacks == 0..MaxDays

RiskParams == {NULL, "low", "medium", "high", "severe"}

(* Database sessions.  get_db and get_activity_db are generators used as   *)
(* request dependencies: the session is created and yielded before the    *)
(* handler runs - also when the request's parameters then fail            *)
(* validation - and the finally block runs when the request is over.      *)
(* db is the session of the latest request: its factory, how often it     *)
(* has been closed and how its request ended.                             *)

ExitPaths == {"return", "http_exception", "validation_error", "exception"}

\* db = SessionLocal(); try: yield db
SessionOpened(factory) == Some([factory |-> factory, closes |-> 0, exit |-> "running"])

get_db == SessionOpened("SessionLocal")

get_activity_db == SessionOpened("ActivitySessionLocal")

\* how the request of a response ended: the handler returned, raised an
\* HTTPException, was not run because validation failed, or raised
\* another exception
ExitPath(r) ==
    IF r.kind # "error" THEN "return"
    ELSE IF r.status_code = 422 THEN "validation_error"
    ELSE IF r.status_code = 500 THEN "exception"
    ELSE "http_exception"

\* a generator that closes after the yield without try/finally
ClosesOn_ReturnOnly(exit) == exit = "return"

\* finally: the block runs however the request ended
ClosesOn(exit) == exit \in ExitPaths

\* finally: db.close()
SessionFinally(session, exit) ==
    <<[session[1] EXCEPT !.closes = IF ClosesOn(exit) THEN @ + 1 ELSE @,
                         !.exit = exit]>>

\* A handler runs when no response is pending; Return hands the pending
\* response to the caller (return success_response(...) / raise).
(* A client paging through the leaderboard: scan holds the request it    *)
(* repeats and the pages and totals received so far, from page 1 on.     *)

Ceil(a, b) == (a + b - 1) \div b

ScanDone == scan # None /\ Len(scan[1].pages) >= Ceil(scan[1].totals[1], scan[1].limit)

ScanAfter(school_id, type, days, page, limit, r) ==
    IF scan # None
    THEN <<[scan[1] EXCEPT !.pages = Append(@, r.students),
                           !.totals = Append(@, r.total)]>>
    ELSE IF page = 1
    THEN <<[school_id |-> school_id, type |-> type, days |-> days, limit |-> limit,
            pages |-> <<r.students>>, totals |-> <<r.total>>]>>
    ELSE None

Return ==
    /\ resp # NoResp
    /\ resp' = NoResp
    /\ scan' = IF ScanDone THEN None ELSE scan
    /\ db' = SessionFinally(db, ExitPath(resp))
    /\ UNCHANGED tables

\* an overview that writes the risk level it shows for a student without
\* one back into the student's row
Overview_StoresShownRisk ==
    /\ resp = NoResp
    /\ \E school_id \in SchoolParams :
          /\ \E order \in TopOrders(school_id) :
                resp' = get_school_overview(school_id, order)
          /\ students' = [s \in StudentIds |->
                IF students[s].school = school_id /\ students[s].risk_level = NULL
                THEN [students[s] EXCEPT !.risk_level = "LOW"] ELSE students[s]]
    /\ db' = get_db
    /\ UNCHANGED <<wellbeing, streaks, app_sessions, assessments, responses, assignments,
                   submissions, registrations, webinars, attendance, scan>>

Overview ==
    /\ resp = NoResp
    /\ \E school_id \in SchoolParams : \E order \in TopOrders(school_id) :
          resp' = get_school_overview(school_id, order)
    /\ db' = get_db
    /\ UNCHANGED <<tables, scan>>

ClassList ==
    /\ resp = NoResp
    /\ \E school_id \in SchoolParams, teacher_id \in Teachers \cup {NULL} :
          resp' = get_classes_analytics(school_id, teacher_id)
    /\ db' = get_db
    /\ UNCHANGED <<tables, scan>>

ClassDetail ==
    /\ resp = NoResp
    /\ \E class_id \in ClassParams : resp' = get_class_analytics(class_id)
    /\ db' = get_db
    /\ UNCHANGED <<tables, scan>>

\* The scan of a client paging through the student list (type "students").
StudentScanAfter(school_id, class_id, risk_level, page, limit, r) ==
    IF scan # None
    THEN <<[scan[1] EXCEPT !.pages = Append(@, r.students),
                           !.totals = Append(@, r.total_students)]>>
    ELSE IF page = 1
    THEN <<[school_id |-> school_id, type |-> "students", class_id |-> class_id,
            risk_level |-> risk_level, limit |-> limit,
            pages |-> <<r.students>>, totals |-> <<r.total_students>>]>>
    ELSE None

\* A student list request; while a scan is under way the client asks for
\* the next page of the same list.  The query has no ORDER BY: each request
\* gets the matching rows in some order.
StudentList ==
    /\ resp = NoResp
    /\ \E school_id \in SchoolParams, class_id \in ClassParams \cup {NULL},
          risk_level \in RiskParams, page \in Pages, limit \in Limits :
          /\ scan # None =>
                /\ ~ScanDone
                /\ scan[1].type = "students"
                /\ school_id = scan[1].school_id /\ class_id = scan[1].class_id
                /\ risk_level = scan[1].risk_level /\ limit = scan[1].limit
                /\ page = Len(scan[1].pages) + 1
          /\ \E rows \in Perms(MatchingStudents(school_id, class_id, risk_level)) :
                LET r == get_students_analytics(school_id, class_id, risk_level,
                                                page, limit, rows)
                IN  /\ resp' = r
                    /\ scan' = IF r.kind = "error" THEN scan
                               ELSE StudentScanAfter(school_id, class_id, risk_level,
                                                     page, limit, r)
    /\ db' = get_db
    /\ UNCHANGED tables

SchoolAssessments ==
    /\ resp = NoResp
    /\ \E school_id \in SchoolParams, class_id \in ClassParams \cup {NULL},
          teacher_id \in Teachers \cup {NULL}, days \in Lookbacks :
          resp' = get_school_assessments(school_id, class_id, teacher_id, days)
    /\ db' = get_db
    /\ UNCHANGED <<tables, scan>>

SchoolActivities ==
    /\ resp = NoResp
    /\ \E school_id \in SchoolParams, class_id \in ClassParams \cup {NULL},
          teacher_id \in Teachers \cup {NULL}, days \in Lookbacks :
          resp' = get_school_activities(school_id, class_id, teacher_id, days)
    /\ db' = get_db
    /\ UNCHANGED <<tables, scan>>

SchoolWebinars ==
    /\ resp = NoResp
    /\ \E school_id \in SchoolParams, class_id \in ClassParams \cup {NULL},
          teacher_id \in Teachers \cup {NULL}, days \in Lookbacks :
          resp' = get_school_webinars(school_id, class_id, teacher_id, days)
    /\ db' = get_db
    /\ UNCHANGED <<tables, scan>>

StudentProfile ==
    /\ resp = NoResp
    /\ \E student_id \in StudentParams, school_id \in SchoolParams :
          \E variation \in Variations(student_id, school_id) :
              resp' = get_student_profile(student_id, school_id, variation)
    /\ db' = get_db
    /\ UNCHANGED <<tables, scan>>

AssessmentDetails ==
    /\ resp = NoResp
    /\ \E template_id \in Templates \cup {"T0"}, school_id \in SchoolParams, days \in Lookbacks :
          \E picked \in ResponseMaps(TemplateResponses(template_id, school_id, days)) :
              resp' = get_assessment_details(template_id, school_id, days, picked)
    /\ db' = get_db
    /\ UNCHANGED <<tables, scan>>

WebinarDetails ==
    /\ resp = NoResp
    /\ \E webinar_id \in WebinarIds \cup {"w0"}, school_id \in SchoolParams :
          resp' = get_webinar_details(webinar_id, school_id)
    /\ db' = get_db
    /\ UNCHANGED <<tables, scan>>

StatusParams == {NULL, "pending", "SUBMITTED", "verified", "rejected", "done"}

AssessmentHistory ==
    /\ resp = NoResp
    /\ \E student_id \in StudentParams, days \in {Some(d) : d \in Lookbacks} \cup {None} :
          \E at_cutoff \in SUBSET CutoffRows(student_id, days) :
              resp' = get_student_assessment_history(student_id, days, at_cutoff)
    /\ db' = get_db
    /\ UNCHANGED <<tables, scan>>

ActivityHistory ==
    /\ resp = NoResp
    /\ \E student_id \in StudentParams, status \in StatusParams :
          resp' = get_student_activity_history(student_id, status)
    /\ db' = get_db
    /\ UNCHANGED <<tables, scan>>

WebinarHistory ==
    /\ resp = NoResp
    /\ \E student_id \in StudentParams, attended \in {None, Some(TRUE), Some(FALSE)} :
          resp' = get_student_webinar_history(student_id, attended)
    /\ db' = get_db
    /\ UNCHANGED <<tables, scan>>

----------------------------------------------------------------------------
(* 13. Leaderboard *)

LeaderboardTypes == {"assessments", "activities", "webinars"}

RECURSIVE SumScores(_)
SumScores(rows) ==
    IF rows = {} THEN 0
    ELSE LET r == CHOOSE x \in rows : TRUE
         IN  r.score[1] + SumScores(rows \ {r})

\* func.avg(score): the mean of the non-null scores as <<sum, count>>, NULL
\* when every score of the group is NULL
AvgScore(rows) ==
    LET scored == {r \in rows : r.score # None}
    IN  IF scored = {} THEN None ELSE <<SumScores(scored), Card(scored)>>

\* the grouped rows of base_query: one row per student with at least one
\* row passing the filters
AssessmentGroups(cohort, days) ==
    LET passing == {r \in responses :
                       /\ r.student \in cohort
                       /\ r.completed # None
                       /\ r.completed[1] >= StartDate(days)}
    IN  {[student_id |-> s,
          score |-> AvgScore({r \in passing : r.student = s}),
          count |-> Card({r.assessment : r \in {x \in passing : x.student = s}})] :
            s \in {r.student : r \in passing}}

ActivityGroups(cohort, days) ==
    LET passing == {x \in submissions :
                       /\ x.student \in cohort
                       /\ x.status \in Completed
                       /\ x.submitted # None
                       /\ x.submitted[1] >= StartDate(days)}
    IN  {[student_id |-> s, count |-> Card({x \in passing : x.student = s})] :
            s \in {x.student : x \in passing}}

WebinarGroups(cohort, days) ==
    LET passing == {x \in attendance :
                       /\ x.student \in cohort
                       /\ x.attended
                       /\ x.created >= StartDate(days)}
    IN  {[student_id |-> s, count |-> Card({x \in passing : x.student = s})] :
            s \in {x.student : x \in passing}}

LeaderboardGroups(school_id, type, days) ==
    LET cohort == StudentsOfSchool(school_id)
    IN  CASE type = "assessments" -> AssessmentGroups(cohort, days)
          [] type = "activities" -> ActivityGroups(cohort, days)
          [] type = "webinars" -> WebinarGroups(cohort, days)
          [] OTHER -> {}

\* ORDER BY score DESC of the database: NULL sorts as larger than every
\* value, so a NULL average comes first; rows of equal key in any order.
DescMayPrecede(type, a, b) ==
    IF type = "assessments"
    THEN \/ a.score = None
         \/ /\ b.score # None
            /\ a.score[1] * b.score[2] >= b.score[1] * a.score[2]
    ELSE a.count >= b.count

\* the sequences base_query.order_by(desc(...)) may return
RankedOrders(school_id, type, days) ==
    {o \in Perms(LeaderboardGroups(school_id, type, days)) :
        \A i, j \in DOMAIN o : i < j => DescMayPrecede(type, o[i], o[j])}

\* "score": round(row.score, 1) if row.score else 0 (in tenths), or
\* row.count for the two counting types
ReportedScore(type, row) ==
    IF type = "assessments"
    THEN IF row.score = None \/ row.score[1] = 0 THEN 0
         ELSE Round1(row.score[1], row.score[2])
    ELSE row.count

\* total_count = base_query.count()
TotalCount(groups) == Card(groups)

\* if not student_ids: return {"students": [], "total": 0, page, limit}
NoStudentsLeaderboard(school_id, type, days, page, limit) ==
    [kind |-> "leaderboard", school_id |-> school_id, type |-> type,
     days |-> days, students |-> <<>>, total |-> 0,
     page |-> page, limit |-> limit]

\* a type parameter checked against the three types before the handler runs
UntypedLeaderboard_Rejects(school_id, type, days, page, limit) ==
    ValidationError({"type"})

\* a type that is none of the three takes no branch of the if / elif chain:
\* results = [] and total_count = 0 reach the final return as initialised
UntypedLeaderboard(school_id, type, days, page, limit) ==
    [kind |-> "leaderboard", school_id |-> school_id, type |-> type,
     days |-> days, students |-> <<>>, total |-> 0,
     page |-> page, limit |-> limit]

get_school_leaderboard(school_id, type, days, page, limit, order) ==
    IF InvalidPaging(page, limit) # {} THEN
        ValidationError(InvalidPaging(page, limit))
    ELSE IF StudentsOfSchool(school_id) = {} THEN
        NoStudentsLeaderboard(school_id, type, days, page, limit)
    ELSE IF type \notin LeaderboardTypes THEN
        UntypedLeaderboard(school_id, type, days, page, limit)
    ELSE
        LET data == PageOf(order, page, limit)
        IN  [kind |-> "leaderboard", school_id |-> school_id, type |-> type,
             days |-> days,
             students |-> [i \in DOMAIN data |->
                              [id |-> data[i].student_id,
                               score |-> ReportedScore(type, data[i])]],
             total |-> TotalCount(LeaderboardGroups(school_id, type, days)),
             page |-> page, limit |-> limit]

SchoolTrends ==
    /\ resp = NoResp
    /\ \E school_id \in SchoolParams, teacher_id \in Teachers \cup {NULL}, days \in Lookbacks :
          resp' = get_school_trends(school_id, teacher_id, days)
    /\ db' = get_db
    /\ UNCHANGED <<tables, scan>>

\* A leaderboard request; while a scan is under way the client asks for
\* the next page of the same leaderboard.
Leaderboard ==
    /\ resp = NoResp
    /\ \E school_id \in SchoolParams, type \in LeaderboardTypes \cup {"other"},
          days \in {0, MaxDays}, page \in Pages, limit \in Limits :
          /\ scan # None =>
                /\ ~ScanDone
                /\ school_id = scan[1].school_id /\ type = scan[1].type
                /\ days = scan[1].days /\ limit = scan[1].limit
                /\ page = Len(scan[1].pages) + 1
          /\ \E order \in RankedOrders(school_id, type, days) :
                LET r == get_school_leaderboard(school_id, type, days, page, limit, order)
                IN  /\ resp' = r
                    /\ scan' = IF r.kind = "error" THEN scan
                               ELSE ScanAfter(school_id, type, days, page, limit, r)
    /\ db' = get_db
    /\ UNCHANGED tables

----------------------------------------------------------------------------
(* Snapshots *)

\* b2b_assessments rows a snapshot may hold: a1 is school-wide, a2 is of c1.
AssessmentCatalog ==
    {[assessment_id |-> "a1", template_id |-> "T1", school |-> "s1", class_id |-> NULL],
     [assessment_id |-> "a2", template_id |-> "T1", school |-> "s1", class_id |-> "c1"]}

\* b2b_activity_assignments rows a snapshot may hold.
AssignmentCatalog ==
    {[assignment_id |-> "g1", activity |-> "act1", class_id |-> "c1"]}

\* Response tables over the given questions, scores and dates: at most one
\* row per (student, assessment, question), answered by students of the
\* assessment's school (who may since have changed class).
ResponseTables(asmts, questions, scores, dates) ==
    LET keys == {k \in StudentIds \X {a.assessment_id : a \in asmts} \X questions :
                    \E a \in asmts : /\ a.assessment_id = k[2]
                                     /\ students[k[1]].school = a.school}
    IN  UNION {{ {[student |-> k[1], assessment |-> k[2], question |-> k[3],
                    score |-> f[k][1], completed |-> f[k][2]] : k \in ks} :
                  f \in [ks -> scores \X dates]} : ks \in SUBSET keys}

\* Submission tables: at most one row per (student, assignment).
SubmissionTables(asgs, statuses, dates) ==
    LET keys == StudentIds \X {a.assignment_id : a \in asgs}
    IN  UNION {{ {[submission_id |-> k, assignment |-> k[2], student |-> k[1],
                    status |-> f[k][1], submitted |-> f[k][2]] : k \in ks} :
                  f \in [ks -> statuses \X dates]} : ks \in SUBSET keys}

\* Attendance tables over the given (student, webinar) keys: at most one
\* row per (student, webinar).
AttendanceTables(keys, flags, dates) ==
        UNION {{ {[student |-> k[1], webinar |-> k[2],
                    attended |-> f[k][1], created |-> f[k][2]] : k \in ks} :
                  f \in [ks -> flags \X dates]} : ks \in SUBSET keys}

\* (student, webinar) pairs whose webinar the student's school registered for
RegisteredKeys ==
    {k \in StudentIds \X {w.webinar_id : w \in webinars} :
        \E g \in registrations : g.webinar = k[2] /\ g.school = students[k[1]].school}

\* every (student, webinar) pair of a student of school s1
SchoolKeys ==
    {k \in StudentIds \X {w.webinar_id : w \in webinars} : students[k[1]].school = "s1"}

\* Registration tables of school s1: at most one row per webinar, for the
\* whole school (no class_ids) or for some of its classes.
RegistrationTables(webs) ==
    LET ids == {w.webinar_id : w \in webs}
    IN  UNION {{ {[webinar |-> w, school |-> "s1", class_ids |-> f[w]] : w \in ws} :
                  f \in [ws -> SUBSET ClassIds]} : ws \in SUBSET ids}

\* no student has a wellbeing score; no student has a streak summary
NoWellbeing == [s \in StudentIds |-> None]

NoStreaks == [s \in {} |-> 0]

EmptyEvents ==
    /\ assessments = {} /\ responses = {}
    /\ assignments = {} /\ submissions = {}
    /\ registrations = {} /\ webinars = {} /\ attendance = {}

LowRiskRows == {r \in StudentRows : r.risk_level = "LOW"}

\* Roster snapshots: every placement and risk level of every student.
InitRoster ==
    /\ students \in [StudentIds -> StudentRows]
    /\ EmptyEvents
    /\ resp = NoResp
    /\ wellbeing = NoWellbeing /\ streaks = NoStreaks /\ app_sessions = {}
    /\ scan = None
    /\ db = None

NextRoster == Overview \/ ClassList \/ ClassDetail \/ Return

SpecRoster == InitRoster /\ [][NextRoster]_vars

\* Streak snapshots: the students are placed in either school, some of them
\* have a streak summary with a current streak of 0..MaxStreak.
MaxStreak == 2

StreakTables ==
    UNION {[S -> 0..MaxStreak] : S \in SUBSET StudentIds}

InitStreaks ==
    /\ students \in [StudentIds -> {r \in LowRiskRows : r.class_id = NULL}]
    /\ wellbeing = NoWellbeing
    /\ streaks \in StreakTables
    /\ app_sessions = {}
    /\ EmptyEvents
    /\ resp = NoResp
    /\ scan = None
    /\ db = None

SpecStreaks == InitStreaks /\ [][Overview \/ Return]_vars

\* History snapshots: the students are in school s1; student 1 may have
\* answered h1 (template T1, max_score 10), h2 (T2, max_score 0) and h3
\* (T3, max_score 100), the other students h1; a score is NULL or a number,
\* a row is completed today, yesterday or not at all.
HistoryCatalog ==
    {[assessment_id |-> "h1", template_id |-> "T1", school |-> "s1", class_id |-> NULL],
     [assessment_id |-> "h2", template_id |-> "T2", school |-> "s1", class_id |-> NULL],
     [assessment_id |-> "h3", template_id |-> "T3", school |-> "s1", class_id |-> NULL]}

HistoryRows ==
    [student : {1}, assessment : {"h1"}, question : {"q1"},
     score : {None, Some(2), Some(5)}, completed : {None, Some(Today), Some(Today - 1)}]
    \cup [student : {1}, assessment : {"h1"}, question : {"q2"},
          score : {Some(5)}, completed : {Some(Today), Some(Today - 1)}]
    \cup [student : {1}, assessment : {"h2"}, question : {"q1"},
          score : {Some(5)}, completed : {Some(Today)}]
    \cup [student : {1}, assessment : {"h3"}, question : {"q1"},
          score : {Some(33), Some(66), Some(70)}, completed : {Some(Today)}]
    \cup [student : StudentIds \ {1}, assessment : {"h1"}, question : {"q1"},
          score : {Some(5)}, completed : {Some(Today)}]

InitHistory ==
    /\ students = [s \in StudentIds |->
                     [school |-> "s1", class_id |-> NULL, risk_level |-> "LOW"]]
    /\ assessments = HistoryCatalog
    /\ responses \in {R \in SUBSET HistoryRows :
                         \A x, y \in R :
                             (x.student = y.student /\ x.assessment = y.assessment
                                /\ x.question = y.question) => x = y}
    /\ assignments = {} /\ submissions = {}
    /\ registrations = {} /\ webinars = {} /\ attendance = {}
    /\ resp = NoResp
    /\ wellbeing = NoWellbeing /\ streaks = NoStreaks /\ app_sessions = {}
    /\ scan = None
    /\ db = None

NextHistory == AssessmentHistory \/ Return

SpecHistory == InitHistory /\ [][NextHistory]_vars

\* Class activity snapshots: every student is in c1 or c2; c1 has up to
\* four assignment rows over three activities (g3 assigns act1 again), c2
\* has none; a student has at most one submission per assignment, in any
\* of three states for g1 and SUBMITTED for the others.
ClassActivityCatalog ==
    {[assignment_id |-> "g1", activity |-> "act1", class_id |-> "c1"],
     [assignment_id |-> "g2", activity |-> "act2", class_id |-> "c1"],
     [assignment_id |-> "g3", activity |-> "act1", class_id |-> "c1"],
     [assignment_id |-> "g4", activity |-> "act3", class_id |-> "c1"]}

InitClassActivities ==
    /\ students \in [StudentIds -> {r \in LowRiskRows : r.class_id # NULL}]
    /\ \E ids \in {{}, {"g1"}, {"g1", "g2"}, {"g1", "g2", "g3"}, {"g1", "g2", "g4"}} :
          assignments = {a \in ClassActivityCatalog : a.assignment_id \in ids}
    /\ \E first \in SubmissionTables({a \in assignments : a.assignment_id = "g1"},
                                       {"PENDING", "SUBMITTED", "VERIFIED"}, {Some(Today)}),
          rest \in SubmissionTables({a \in assignments : a.assignment_id # "g1"},
                                      {"SUBMITTED"}, {Some(Today)}) :
          submissions = first \cup rest
    /\ assessments = {} /\ responses = {}
    /\ registrations = {} /\ webinars = {} /\ attendance = {}
    /\ resp = NoResp
    /\ wellbeing = NoWellbeing /\ streaks = NoStreaks /\ app_sessions = {}
    /\ scan = None
    /\ db = None

NextClassActivities == ClassList \/ Return

SpecClassActivities == InitClassActivities /\ [][NextClassActivities]_vars

\* Roster snapshots read by clients of the paginated student list.
NextStudentPages == StudentList \/ Return

SpecStudentPages == InitRoster /\ [][NextStudentPages]_vars

\* Engagement snapshots: every placement of every student, and the rows of
\* one family (assessments, activities or webinars) dated today.
InitEngagement ==
    /\ students \in [StudentIds -> LowRiskRows]
    /\ \/ /\ assessments \in SUBSET AssessmentCatalog
          /\ responses \in ResponseTables(assessments, {"q1"}, {Some(1)}, {Some(Today)})
          /\ assignments = {} /\ submissions = {}
          /\ registrations = {} /\ webinars = {} /\ attendance = {}
       \/ /\ assignments \in SUBSET AssignmentCatalog
          /\ submissions \in SubmissionTables(assignments, {"PENDING", "SUBMITTED"},
                                              {Some(Today)})
          /\ assessments = {} /\ responses = {}
          /\ registrations = {} /\ webinars = {} /\ attendance = {}
       \/ /\ webinars = {[webinar_id |-> "w1", date |-> Today]}
          /\ registrations \in RegistrationTables(webinars)
          /\ attendance \in AttendanceTables(RegisteredKeys, BOOLEAN, {Today})
          /\ assessments = {} /\ responses = {}
          /\ assignments = {} /\ submissions = {}
    /\ resp = NoResp
    /\ wellbeing = NoWellbeing /\ streaks = NoStreaks /\ app_sessions = {}
    /\ scan = None
    /\ db = None

NextEngagement ==
    \/ ClassList
    \/ StudentList
    \/ SchoolAssessments
    \/ SchoolActivities
    \/ SchoolWebinars
    \/ StudentProfile
    \/ Return

SpecEngagement == InitEngagement /\ [][NextEngagement]_vars

\* Assessment snapshots: every placement, and question-level response rows
\* (two questions per assessment) dated inside or before the window.
InitAssessDetail ==
    /\ students \in [StudentIds -> LowRiskRows]
    /\ assessments \in SUBSET AssessmentCatalog
    /\ responses \in ResponseTables(assessments, {"q1", "q2"}, {Some(1)}, {Some(Today)})
    /\ assignments = {} /\ submissions = {}
    /\ registrations = {} /\ webinars = {} /\ attendance = {}
    /\ resp = NoResp
    /\ wellbeing = NoWellbeing /\ streaks = NoStreaks /\ app_sessions = {}
    /\ scan = None
    /\ db = None

NextAssessDetail == AssessmentDetails \/ Return

SpecAssessDetail == InitAssessDetail /\ [][NextAssessDetail]_vars

\* Session snapshots: assessment snapshots whose responses may have a NULL
\* score, so that a request can end by return, by a 404 and by a TypeError.
InitSessions ==
    /\ students \in [StudentIds -> LowRiskRows]
    /\ assessments \in SUBSET AssessmentCatalog
    /\ responses \in ResponseTables(assessments, {"q1"}, {None, Some(1)}, {Some(Today)})
    /\ assignments = {} /\ submissions = {}
    /\ registrations = {} /\ webinars = {} /\ attendance = {}
    /\ resp = NoResp
    /\ wellbeing = NoWellbeing /\ streaks = NoStreaks /\ app_sessions = {}
    /\ scan = None
    /\ db = None

SpecSessions == InitSessions /\ [][NextAssessDetail]_vars

\* Webinar snapshots: every placement, webinar w1 registered for school s1
\* or not, for the whole school or for some classes, and every attendance
\* table of w1.
InitWebinars ==
    /\ students \in [StudentIds -> LowRiskRows]
    /\ webinars = {[webinar_id |-> "w1", date |-> Today]}
    /\ registrations \in RegistrationTables(webinars)
    /\ attendance \in AttendanceTables(StudentIds \X WebinarIds, BOOLEAN, {Today})
    /\ assessments = {} /\ responses = {}
    /\ assignments = {} /\ submissions = {}
    /\ resp = NoResp
    /\ wellbeing = NoWellbeing /\ streaks = NoStreaks /\ app_sessions = {}
    /\ scan = None
    /\ db = None

NextWebinars == WebinarDetails \/ SchoolWebinars \/ Return

SpecWebinars == InitWebinars /\ [][NextWebinars]_vars

\* The days an event of a trend snapshot may be dated: from the day before
\* the longest window to tomorrow.
EventDays == (Today - MaxDays - 1)..(Today + 1)

\* Trend snapshots: every placement, and the dated events of one family.
InitTrends ==
    /\ students \in [StudentIds -> LowRiskRows]
    /\ \/ /\ assessments = {a \in AssessmentCatalog : a.assessment_id = "a1"}
          /\ responses \in ResponseTables(assessments, {"q1"}, {Some(1)},
                                          {Some(d) : d \in EventDays})
          /\ assignments = {} /\ submissions = {}
          /\ registrations = {} /\ webinars = {} /\ attendance = {}
       \/ /\ assignments = AssignmentCatalog
          /\ submissions \in SubmissionTables(assignments, {"SUBMITTED"},
                                              {Some(d) : d \in EventDays})
          /\ assessments = {} /\ responses = {}
          /\ registrations = {} /\ webinars = {} /\ attendance = {}
       \/ /\ webinars = {[webinar_id |-> "w1", date |-> Today]}
          /\ registrations = {[webinar |-> "w1", school |-> "s1", class_ids |-> {}]}
          /\ attendance \in AttendanceTables(RegisteredKeys, {TRUE}, EventDays)
          /\ assessments = {} /\ responses = {}
          /\ assignments = {} /\ submissions = {}
    /\ resp = NoResp
    /\ wellbeing = NoWellbeing /\ streaks = NoStreaks /\ app_sessions = {}
    /\ scan = None
    /\ db = None

NextTrends == SchoolTrends \/ Return

SpecTrends == InitTrends /\ [][NextTrends]_vars

\* Trend snapshots with several events of one student: the students are in
\* class c1, which has the assignments g1 and g2, and a student has at most
\* one submission for each, submitted today or yesterday.
InitTrendCounts ==
    /\ students = [s \in StudentIds |->
                     [school |-> "s1", class_id |-> "c1", risk_level |-> "LOW"]]
    /\ assignments = {a \in ClassActivityCatalog : a.assignment_id \in {"g1", "g2"}}
    /\ submissions \in SubmissionTables(assignments, {"SUBMITTED"},
                                        {Some(Today), Some(Today - 1)})
    /\ assessments = {} /\ responses = {}
    /\ registrations = {} /\ webinars = {} /\ attendance = {}
    /\ resp = NoResp
    /\ wellbeing = NoWellbeing /\ streaks = NoStreaks /\ app_sessions = {}
    /\ scan = None
    /\ db = None

SpecTrendCounts == InitTrendCounts /\ [][NextTrends]_vars

\* Students without a class: the leaderboard reads only their school.
ClasslessRows == {r \in LowRiskRows : r.class_id = NULL}

\* Leaderboard snapshots: the rows of one family, scored or dated.
InitLeaderboard ==
    /\ students \in [StudentIds -> ClasslessRows]
    /\ \/ /\ assessments = {a \in AssessmentCatalog : a.assessment_id = "a1"}
          /\ responses \in ResponseTables(assessments, {"q1", "q2"},
                                          {None, Some(1), Some(2)}, {Some(Today)})
          /\ assignments = {} /\ submissions = {}
          /\ registrations = {} /\ webinars = {} /\ attendance = {}
       \/ /\ assignments = AssignmentCatalog
          /\ submissions \in SubmissionTables(assignments, {"PENDING", "SUBMITTED"},
                                              {Some(Today), Some(Today - 1)})
          /\ assessments = {} /\ responses = {}
          /\ registrations = {} /\ webinars = {} /\ attendance = {}
       \/ /\ webinars = {[webinar_id |-> "w1", date |-> Today]}
          /\ registrations = {[webinar |-> "w1", school |-> "s1", class_ids |-> {}]}
          /\ attendance \in AttendanceTables(RegisteredKeys, BOOLEAN, {Today, Today - 1})
          /\ assessments = {} /\ responses = {}
          /\ assignments = {} /\ submissions = {}
    /\ resp = NoResp
    /\ wellbeing = NoWellbeing /\ streaks = NoStreaks /\ app_sessions = {}
    /\ scan = None
    /\ db = None

NextLeaderboard == Leaderboard \/ Return

SpecLeaderboard == InitLeaderboard /\ [][NextLeaderboard]_vars

\* Every entry point over the engagement snapshots.
InitEntryPoints == InitEngagement

NextEntryPoints ==
    \/ Overview
    \/ ClassList
    \/ ClassDetail
    \/ StudentList
    \/ AssessmentHistory
    \/ ActivityHistory
    \/ WebinarHistory
    \/ SchoolTrends
    \/ SchoolAssessments
    \/ SchoolActivities
    \/ SchoolWebinars
    \/ AssessmentDetails
    \/ WebinarDetails
    \/ StudentProfile
    \/ Leaderboard
    \/ Return

SpecEntryPoints == InitEntryPoints /\ [][NextEntryPoints]_vars

\* Read-only snapshots: student 1 is in class c1 and has no risk level, the
\* others are in no class; the rows of one family (responses to a1,
\* submissions for g1, or attendance of the school-wide webinar w1).
InitReadOnly ==
    /\ students = [s \in StudentIds |->
                     IF s = 1
                     THEN [school |-> "s1", class_id |-> "c1", risk_level |-> NULL]
                     ELSE [school |-> "s1", class_id |-> NULL, risk_level |-> "HIGH"]]
    /\ \/ /\ assessments = {a \in AssessmentCatalog : a.class_id = NULL}
          /\ responses \in ResponseTables(assessments, {"q1"}, {Some(1)}, {Some(Today)})
          /\ assignments = {} /\ submissions = {}
          /\ registrations = {} /\ webinars = {} /\ attendance = {}
       \/ /\ assignments = AssignmentCatalog
          /\ submissions \in SubmissionTables(assignments, {"SUBMITTED"}, {Some(Today)})
          /\ assessments = {} /\ responses = {}
          /\ registrations = {} /\ webinars = {} /\ attendance = {}
       \/ /\ webinars = {[webinar_id |-> "w1", date |-> Today]}
          /\ registrations = {[webinar |-> "w1", school |-> "s1", class_ids |-> {}]}
          /\ attendance \in AttendanceTables(StudentIds \X WebinarIds, {TRUE}, {Today})
          /\ assessments = {} /\ responses = {}
          /\ assignments = {} /\ submissions = {}
    /\ resp = NoResp
    /\ wellbeing = NoWellbeing /\ streaks = NoStreaks /\ app_sessions = {}
    /\ scan = None
    /\ db = None

SpecReadOnly == InitReadOnly /\ [][NextEntryPoints]_vars


\* Snapshots with empty divisors: students of school s1 inside or outside
\* class c1 (class c2 and school s2 have none), and the rows of at most one
\* family: app sessions, answers to a1, submissions for g1, attendance of w1.
SessionCatalog ==
    {[id |-> "p1", student |-> 1, start |-> Today, duration_minutes |-> 0],
     [id |-> "p2", student |-> 1, start |-> Today, duration_minutes |-> 3]}

InitZeroDivisors ==
    /\ students \in [StudentIds -> {r \in LowRiskRows :
                                       r.school = "s1" /\ r.class_id \in {"c1", NULL}}]
    /\ wellbeing = NoWellbeing /\ streaks = NoStreaks
    /\ \/ /\ app_sessions \in SUBSET SessionCatalog
          /\ assessments = {} /\ responses = {}
          /\ assignments = {} /\ submissions = {}
          /\ registrations = {} /\ webinars = {} /\ attendance = {}
       \/ /\ assessments = {a \in AssessmentCatalog : a.class_id = NULL}
          /\ responses \in ResponseTables(assessments, {"q1"}, {Some(1)}, {Some(Today)})
          /\ app_sessions = {}
          /\ assignments = {} /\ submissions = {}
          /\ registrations = {} /\ webinars = {} /\ attendance = {}
       \/ /\ assignments = AssignmentCatalog
          /\ submissions \in SubmissionTables(assignments, {"SUBMITTED"}, {Some(Today)})
          /\ app_sessions = {}
          /\ assessments = {} /\ responses = {}
          /\ registrations = {} /\ webinars = {} /\ attendance = {}
       \/ /\ webinars = {[webinar_id |-> "w1", date |-> Today]}
          /\ registrations = {[webinar |-> "w1", school |-> "s1", class_ids |-> {}]}
          /\ attendance \in AttendanceTables(StudentIds \X WebinarIds, {TRUE}, {Today})
          /\ app_sessions = {}
          /\ assessments = {} /\ responses = {}
          /\ assignments = {} /\ submissions = {}
    /\ resp = NoResp
    /\ scan = None
    /\ db = None

NextRates ==
    \/ Overview
    \/ ClassList
    \/ ClassDetail
    \/ SchoolTrends
    \/ SchoolAssessments
    \/ SchoolActivities
    \/ SchoolWebinars
    \/ AssessmentDetails
    \/ WebinarHistory
    \/ StudentProfile
    \/ Return

SpecZeroDivisors == InitZeroDivisors /\ [][NextRates]_vars


\* Wellbeing snapshots: students of school s1 inside or outside class c1,
\* each without a wellbeing score or with one of 0, 3, 4; no events.
WellbeingScores == {None, Some(0), Some(3), Some(4)}

InitWellbeing ==
    /\ students \in [StudentIds -> {r \in LowRiskRows :
                                       r.school = "s1" /\ r.class_id \in {"c1", NULL}}]
    /\ wellbeing \in [StudentIds -> WellbeingScores]
    /\ streaks = NoStreaks /\ app_sessions = {}
    /\ EmptyEvents
    /\ resp = NoResp
    /\ scan = None
    /\ db = None

SpecWellbeing == InitWellbeing /\ [][NextRoster]_vars


\* Leaderboard snapshots for requests of any type: classless students of
\* either school and the submissions for g1 handed in today.
InitUntyped ==
    /\ students \in [StudentIds -> {r \in ClasslessRows : r.risk_level = "LOW"}]
    /\ assignments = AssignmentCatalog
    /\ submissions \in SubmissionTables(assignments, {"SUBMITTED"}, {Some(Today)})
    /\ assessments = {} /\ responses = {}
    /\ registrations = {} /\ webinars = {} /\ attendance = {}
    /\ resp = NoResp
    /\ wellbeing = NoWellbeing /\ streaks = NoStreaks /\ app_sessions = {}
    /\ scan = None
    /\ db = None

SpecUntyped == InitUntyped /\ [][NextLeaderboard]_vars

----------------------------------------------------------------------------
(* C1: in every response of the overview, of the class list and of the     *)
(* single-class detail the risk buckets low + medium + high add up to the  *)
(* number of students of the cohort (total_students of that response),     *)
(* also when a student's risk_level is absent.                             *)

RiskSum(d) == d.low + d.medium + d.high

C1_RiskBucketsSumToCohort ==
    /\ resp.kind = "overview" =>
          RiskSum(resp.risk_distribution) = resp.total_students
    /\ resp.kind = "classes" =>
          \A c \in DOMAIN resp.classes :
              RiskSum(resp.classes[c].risk_distribution) = resp.classes[c].total_students
    /\ resp.kind = "class" =>
          RiskSum(resp.risk_distribution) = resp.total_students

----------------------------------------------------------------------------
(* C2: in every entry of the class list, for each of the three families    *)
(* (assessments, activities, webinars), the reported done count is at most *)
(* the reported total count.                                               *)

C2_ClassListDoneAtMostTotal ==
    resp.kind = "classes" =>
        \A c \in DOMAIN resp.classes :
            /\ resp.classes[c].assessments.done <= resp.classes[c].assessments.total
            /\ resp.classes[c].activities.done <= resp.classes[c].activities.total
            /\ resp.classes[c].webinars.done <= resp.classes[c].webinars.total

(* C3: for every student of a page of the student list, the completed or   *)
(* attended count of each family is at most the total of that family.      *)

C3_StudentListDoneAtMostTotal ==
    resp.kind = "students" =>
        \A i \in DOMAIN resp.students :
            /\ resp.students[i].assessments_completed <= resp.students[i].assessments_total
            /\ resp.students[i].activities_completed <= resp.students[i].activities_total
            /\ resp.students[i].webinars_attended <= resp.students[i].webinars_total

(* C7: every rate or percentage of the class list, of the school           *)
(* assessment, activity and webinar lists and of the student profile lies  *)
(* in [0, 100].                                                            *)

TenthsInRange(r) == 0 <= r /\ r <= 1000

QuotientInRange(q) == 0 <= q.num /\ q.num <= 100 * q.den

C7_RatesWithin0And100 ==
    /\ resp.kind = "classes" =>
          \A c \in DOMAIN resp.classes :
              /\ TenthsInRange(resp.classes[c].assessments.rate)
              /\ TenthsInRange(resp.classes[c].activities.rate)
              /\ TenthsInRange(resp.classes[c].webinars.rate)
    /\ resp.kind = "assessment_list" =>
          \A a \in DOMAIN resp.assessments :
              QuotientInRange(resp.assessments[a].submissionRate)
    /\ resp.kind = "activity_list" =>
          \A a \in DOMAIN resp.activities :
              QuotientInRange(resp.activities[a].completionRate)
    /\ resp.kind = "webinar_list" =>
          \A w \in DOMAIN resp.webinars :
              QuotientInRange(resp.webinars[w].attendanceRate)
    /\ resp.kind = "profile" =>
          0 <= resp.stats.activitiesCompleted /\ resp.stats.activitiesCompleted <= 100

(* C4: in the assessment detail view studentsSubmitted is at most          *)
(* totalStudentsAssigned and studentsPending is not negative.              *)

C4_SubmittedAtMostAssigned ==
    resp.kind = "assessment_detail" =>
        /\ resp.studentsSubmitted <= resp.totalStudentsAssigned
        /\ resp.studentsPending >= 0

(* C5: in the webinar detail view the invited students are the union of    *)
(* the students the registration currently assigns and the students of the *)
(* school with an attendance record for the webinar: totalStudentsInvited  *)
(* is the size of that union, studentsAttended is at most it, and          *)
(* studentsAttended + studentsAbsent equals it.                            *)

C5_AssignedNow(w, school_id) ==
    {s \in StudentIds :
        /\ students[s].school = school_id
        /\ \A g \in registrations :
              (g.webinar = w /\ g.school = school_id /\ g.class_ids # {})
                  => students[s].class_id \in g.class_ids}

C5_EverRecorded(w, school_id) ==
    {s \in StudentIds :
        /\ students[s].school = school_id
        /\ \E x \in attendance : x.student = s /\ x.webinar = w}

C5_InvitedIsUnion ==
    resp.kind = "webinar_detail" =>
        LET union == C5_AssignedNow(resp.webinar_id, resp.school_id)
                        \cup C5_EverRecorded(resp.webinar_id, resp.school_id)
        IN  /\ resp.totalStudentsInvited = Card(union)
            /\ DOMAIN resp.attendance = union
            /\ resp.studentsAttended <= resp.totalStudentsInvited
            /\ resp.studentsAttended + resp.studentsAbsent = resp.totalStudentsInvited

\* an attendee who is no longer in an assigned class is in the detail view
C5_Witness ==
    /\ resp.kind = "webinar_detail"
    /\ \E s \in DOMAIN resp.attendance :
          /\ resp.attendance[s].status = "attended"
          /\ s \notin C5_AssignedNow(resp.webinar_id, resp.school_id)
    /\ resp.totalStudentsInvited > Card(C5_AssignedNow(resp.webinar_id, resp.school_id))

(* C6: in the school webinar list, for every listed webinar and every      *)
(* class_id / teacher_id filter, studentsAttended is at most               *)
(* totalStudentsInvited.                                                   *)

C6_ListAttendedAtMostInvited ==
    resp.kind = "webinar_list" =>
        \A w \in DOMAIN resp.webinars :
            resp.webinars[w].studentsAttended <= resp.webinars[w].totalStudentsInvited

\* a listed webinar whose attendees outnumber the students the registration
\* assigns within the request's filter
C6_Witness ==
    /\ resp.kind = "webinar_list"
    /\ \E w \in DOMAIN resp.webinars :
          /\ resp.webinars[w].studentsAttended > 0
          /\ resp.webinars[w].studentsAttended >
                Card({s \in C5_AssignedNow(w, resp.school_id) :
                        /\ resp.class_id # NULL => students[s].class_id = resp.class_id
                        /\ (resp.class_id = NULL /\ resp.teacher_id # NULL) =>
                              /\ students[s].class_id # NULL
                              /\ ClassTable[students[s].class_id].teacher_id = resp.teacher_id})

(* C8 (as claimed): for every trends request with a lookback of N days,    *)
(* whatever the cohort, an empty one included, the series has exactly N+1  *)
(* entries, one for each date from today-N to today in ascending order,    *)
(* and every percentage of a day without events is 0.                      *)

C8_EventOn(family, school_id, teacher_id, d) ==
    \E s \in StudentIds :
        /\ students[s].school = school_id
        /\ teacher_id # NULL =>
              /\ students[s].class_id # NULL
              /\ ClassTable[students[s].class_id].teacher_id = teacher_id
        /\ CASE family = "assessments" ->
                  \E r \in responses : r.student = s /\ r.completed = <<d>>
             [] family = "activities" ->
                  \E x \in submissions : x.student = s /\ x.submitted = <<d>>
             [] family = "webinars" ->
                  \E x \in attendance : x.student = s /\ x.attended /\ x.created = d

C8_GapFree(r) ==
    /\ Len(r.trends) = r.days + 1
    /\ \A i \in 1..Len(r.trends) : r.trends[i].date = Today - r.days + (i - 1)
    /\ \A i \in 1..Len(r.trends) :
          /\ ~C8_EventOn("assessments", r.school_id, r.teacher_id, r.trends[i].date)
                => r.trends[i].assessments = 0
          /\ ~C8_EventOn("activities", r.school_id, r.teacher_id, r.trends[i].date)
                => r.trends[i].activities = 0
          /\ ~C8_EventOn("webinars", r.school_id, r.teacher_id, r.trends[i].date)
                => r.trends[i].webinars = 0

C8_CohortEmpty(r) ==
    ~\E s \in StudentIds :
        /\ students[s].school = r.school_id
        /\ r.teacher_id # NULL =>
              /\ students[s].class_id # NULL
              /\ ClassTable[students[s].class_id].teacher_id = r.teacher_id

C9_SortedByReportedScore ==
    resp.kind = "leaderboard" =>
        \A i, j \in 1..Len(resp.students) :
            i < j => resp.students[i].score >= resp.students[j].score

(* C10: for a fixed snapshot, school and leaderboard type the total of    *)
(* the leaderboard is the same for every page and limit and is the size   *)
(* of the full ranked set, and the pages 1..ceil(total/limit) put         *)
(* together contain exactly total students: every ranked student, once.   *)

C10_RankedSet(school_id, type, days) ==
    {s \in StudentIds :
        /\ students[s].school = school_id
        /\ CASE type = "assessments" ->
                  \E r \in responses :
                      r.student = s /\ r.completed # <<>> /\ r.completed[1] >= Today - days
             [] type = "activities" ->
                  \E x \in submissions :
                      /\ x.student = s /\ x.status \in {"SUBMITTED", "VERIFIED"}
                      /\ x.submitted # <<>> /\ x.submitted[1] >= Today - days
             [] type = "webinars" ->
                  \E x \in attendance :
                      x.student = s /\ x.attended /\ x.created >= Today - days
             [] OTHER -> FALSE}

RECURSIVE C10_Entries(_)
C10_Entries(pages) ==
    IF pages = <<>> THEN 0 ELSE Len(Head(pages)) + C10_Entries(Tail(pages))

C10_Named(pages) ==
    UNION {{pages[i][k].id : k \in 1..Len(pages[i])} : i \in 1..Len(pages)}

C10_ScanFinished ==
    /\ scan # <<>>
    /\ Len(scan[1].pages) = (scan[1].totals[1] + scan[1].limit - 1) \div scan[1].limit

\* the part of C10 about the total and the number of entries of the pages
C10_TotalIsRankedSetSize ==
    /\ resp.kind = "leaderboard" =>
          resp.total = Cardinality(C10_RankedSet(resp.school_id, resp.type, resp.days))
    /\ scan # <<>> =>
          \A i \in 1..Len(scan[1].totals) : scan[1].totals[i] = scan[1].totals[1]
    /\ C10_ScanFinished => C10_Entries(scan[1].pages) = scan[1].totals[1]

\* C10: the total is the size of the ranked set for every page and limit,
\* and the pages of a finished scan name every ranked student exactly once.
C10_TotalStableAndPagesPartitionRankedSet ==
    /\ C10_TotalIsRankedSetSize
    /\ C10_ScanFinished =>
          C10_Named(scan[1].pages) =
              C10_RankedSet(scan[1].school_id, scan[1].type, scan[1].days)

(* C11: the overview of an existing school without students succeeds and  *)
(* reports total_students 0, the risk distribution {0, 0, 0}, empty       *)
(* top_performers and at_risk_students, and 0 in every numeric field of   *)
(* its summary.                                                           *)

C11_AllZero(r) ==
    /\ r.kind = "overview"
    /\ r.total_students = 0
    /\ r.risk_distribution = [low |-> 0, medium |-> 0, high |-> 0]
    /\ r.top_performers = <<>>
    /\ r.at_risk_students = {}
    /\ \A f \in DOMAIN r.summary : r.summary[f] = 0

C11_EmptySchoolOverviewIsAllZero ==
    \A school_id \in Schools :
        (~\E s \in StudentIds : students[s].school = school_id)
            => C11_AllZero(get_school_overview(school_id, <<>>))

\* the overview served for school s1, which has classes and no student
C11_Witness ==
    /\ resp.kind = "overview"
    /\ resp.school_id = "s1"
    /\ ~\E s \in StudentIds : students[s].school = "s1"
    /\ resp = get_school_overview("s1", <<>>)

(* C12: every entry point whose root scope entity (school, class,         *)
(* student, template, webinar) matches no record fails with NotFound:     *)
(* no response other than a 404 is served for an id that matches nothing. *)

C12_IsNotFound(r) == r.kind = "error" /\ r.status_code = 404

C12_MissingRootIsNotFound ==
    /\ resp.kind \in {"overview", "classes", "students", "trends", "leaderboard"}
          => resp.school_id \in Schools
    /\ resp.kind = "class" => resp.class_id \in ClassIds
    /\ resp.kind \in {"profile", "assessment_history", "activity_history", "webinar_history"}
          => resp.student_id \in StudentIds
    /\ resp.kind = "assessment_detail" => resp.template_id \in Templates
    /\ resp.kind = "webinar_detail" => resp.webinar_id \in {w.webinar_id : w \in webinars}
    /\ C12_IsNotFound(get_school_overview("s0", <<>>))
    /\ C12_IsNotFound(get_class_analytics("c0"))
    /\ C12_IsNotFound(get_student_profile(0, "s1", <<>>))
    /\ C12_IsNotFound(get_student_assessment_history(0, <<>>, {}))
    /\ C12_IsNotFound(get_student_activity_history(0, "NULL"))
    /\ C12_IsNotFound(get_student_webinar_history(0, <<>>))
    /\ C12_IsNotFound(get_webinar_details("w0", "s1"))

(* C13: a request with an unrecognised enum value for a filter fails with *)
(* a client error: the student list never answers a risk_level other     *)
(* than low, medium or high with a list, and the activity history never   *)
(* answers a status outside PENDING/SUBMITTED/VERIFIED/REJECTED with one. *)

C13_UnknownFilterIsRejected ==
    /\ resp.kind = "students"
          => resp.risk_filter \in {"NULL", "low", "medium", "high"}
    /\ resp.kind = "activity_history"
          => resp.status \in {"NULL", "pending", "submitted", "verified", "rejected",
                              "PENDING", "SUBMITTED", "VERIFIED", "REJECTED"}

(* C14: for recognised filters the student list reports as total_students *)
(* the number of matching students, the same on every page of a scan;     *)
(* total_pages is ceil(total_students / limit); a page holds at most      *)
(* limit students; and the pages 1..total_pages of a scan together hold   *)
(* exactly the matching students, total_students of them.                 *)

C14_Matching(school_id, class_id, risk_level) ==
    {s \in StudentIds :
        /\ students[s].school = school_id
        /\ class_id # "NULL" => students[s].class_id = class_id
        /\ risk_level = "low" => students[s].risk_level = "LOW"
        /\ risk_level = "medium" => students[s].risk_level = "MEDIUM"
        /\ risk_level = "high" => students[s].risk_level = "HIGH"}

C14_StudentScan == scan # <<>> /\ scan[1].type = "students" /\ scan[1].risk_level # "severe"

C14_StudentScanFinished ==
    /\ C14_StudentScan
    /\ Len(scan[1].pages) * scan[1].limit >= scan[1].totals[1]
    /\ (Len(scan[1].pages) - 1) * scan[1].limit < scan[1].totals[1]

\* the parts of C14 about the page metadata and the number of entries
C14_PageMetadataAndEntryCount ==
    /\ (resp.kind = "students" /\ resp.risk_filter # "severe") =>
          /\ resp.total_students =
                Cardinality(C14_Matching(resp.school_id, resp.class_id, resp.risk_filter))
          /\ resp.total_pages * resp.limit >= resp.total_students
          /\ resp.total_pages * resp.limit < resp.total_students + resp.limit
          /\ Len(resp.students) <= resp.limit
    /\ C14_StudentScan =>
          \A i \in 1..Len(scan[1].totals) : scan[1].totals[i] = scan[1].totals[1]
    /\ C14_StudentScanFinished => C10_Entries(scan[1].pages) = scan[1].totals[1]

C14_Listed(pages) ==
    UNION {{pages[i][k].student_id : k \in 1..Len(pages[i])} : i \in 1..Len(pages)}

C14_PagesHoldExactlyTheMatchingStudents ==
    /\ C14_PageMetadataAndEntryCount
    /\ C14_StudentScanFinished =>
          C14_Listed(scan[1].pages) =
              C14_Matching(scan[1].school_id, scan[1].class_id, scan[1].risk_level)

(* C15: a student list or leaderboard request whose page or limit is out *)
(* of range (limit below 1 or above 100, page below 1) is served with    *)
(* the clamped values: no such request is answered with a validation     *)
(* error.                                                                 *)

C15_OutOfRangePagingIsServed ==
    resp.kind = "error" => resp.status_code # 422

(* C16: in the assessment history every listed assessment's total_score  *)
(* is the sum of the scores (NULL as 0) of the student's completed        *)
(* responses for it that the request's window admits - all of them when   *)
(* no window is given - and its risk_level follows total_score/max_score: *)
(* low below 0.33, medium from 0.33 to below 0.66, high from 0.66, and    *)
(* low when max_score is 0; max_score 100 with total_score 70 is high.    *)

RECURSIVE C16_Sum(_)
C16_Sum(answers) ==
    IF answers = {} THEN 0
    ELSE LET x == CHOOSE y \in answers : TRUE
         IN  (IF x.score = <<>> THEN 0 ELSE x.score[1]) + C16_Sum(answers \ {x})

C16_Completed(student_id, a) ==
    {r \in responses : r.student = student_id /\ r.assessment = a /\ r.completed # <<>>}

C16_Answers(rows) == {[question_id |-> r.question, score |-> r.score] : r \in rows}

C16_RiskOfRatio(total_score, max_score) ==
    IF max_score = 0 \/ 100 * total_score < 33 * max_score THEN "low"
    ELSE IF 100 * total_score < 66 * max_score THEN "medium"
    ELSE "high"

C16_EntryIsRight(r, a) ==
    LET e == r.assessments[a]
        all == C16_Completed(r.student_id, a)
        sure == IF r.days = <<>> \/ r.days = <<0>> THEN all
                ELSE {x \in all : x.completed[1] > Today - r.days[1]}
        maybe == IF r.days = <<>> \/ r.days = <<0>> THEN all
                 ELSE {x \in all : x.completed[1] >= Today - r.days[1]}
    IN  /\ C16_Answers(sure) \subseteq e.responses
        /\ e.responses \subseteq C16_Answers(maybe)
        /\ e.total_score = C16_Sum(e.responses)
        /\ e.risk_level = C16_RiskOfRatio(e.total_score, e.max_score)
        /\ (e.max_score = 100 /\ e.total_score = 70) => e.risk_level = "high"

C16_HistorySumsScoresAndBucketsRatio ==
    resp.kind = "assessment_history" =>
        /\ \A a \in DOMAIN resp.assessments : C16_EntryIsRight(resp, a)
        /\ (resp.days = <<>> \/ resp.days = <<0>>) =>
              DOMAIN resp.assessments =
                  {a \in {"h1", "h2", "h3"} : C16_Completed(resp.student_id, a) # {}}

\* the scenario: max_score 100 and total_score 70, reported as high
C16_Witness ==
    /\ resp.kind = "assessment_history"
    /\ \E a \in DOMAIN resp.assessments :
          /\ resp.assessments[a].max_score = 100
          /\ resp.assessments[a].total_score = 70
          /\ resp.assessments[a].risk_level = "high"

(* C17: in the class list a class's activity completion rate is           *)
(* round(done / total * 100, 1), where total is the number of distinct    *)
(* activities assigned to the class times the number of its students and  *)
(* done is the number of SUBMITTED or VERIFIED submissions of its          *)
(* students, and it is 0 when total is 0; done 3 of total 6 gives 50.0.   *)

\* t tenths is x = 100 * done / total rounded to one decimal, half to even
C17_IsRoundedPct(t, done, total) ==
    LET twice == 2 * (t * total - 1000 * done)
    IN  /\ twice <= total /\ -twice <= total
        /\ (twice = total \/ -twice = total) => t % 2 = 0

C17_ClassActivities(c) ==
    LET roster == {s \in StudentIds : students[s].class_id = c}
        assigned == {a.activity : a \in {x \in assignments : x.class_id = c}}
        done == Cardinality({x \in submissions :
                    x.student \in roster /\ x.status \in {"SUBMITTED", "VERIFIED"}})
        total == Cardinality(assigned) * Cardinality(roster)
    IN  [done |-> done, total |-> total]

C17_ActivityRateIsRoundedQuotient ==
    /\ Rate(3, 6) = 500
    /\ resp.kind = "classes" =>
          \A c \in DOMAIN resp.classes :
              LET e == resp.classes[c].activities
                  x == C17_ClassActivities(c)
              IN  /\ e.done = x.done /\ e.total = x.total
                  /\ IF x.total = 0 THEN e.rate = 0
                     ELSE C17_IsRoundedPct(e.rate, x.done, x.total)

\* a class with two activities whose students made half of the submissions
C17_Witness ==
    /\ resp.kind = "classes"
    /\ \E c \in DOMAIN resp.classes :
          /\ resp.classes[c].total_students = 2
          /\ resp.classes[c].activities.total = 4
          /\ resp.classes[c].activities.done = 2
          /\ resp.classes[c].activities.rate = 500

(* C18: the session of a request is open while the handler runs and has   *)
(* been closed exactly once when the request is over, whether the handler *)
(* returned, raised an HTTPException or raised another exception; the     *)
(* same holds of a session handed out by get_activity_db.                 *)

C18_SessionClosedExactlyOnce ==
    /\ resp.kind # "none" => (db # <<>> /\ db[1].closes = 0 /\ db[1].exit = "running")
    /\ resp.kind = "none" =>
          (db = <<>> \/ (db[1].closes = 1 /\ db[1].exit # "running"))
    /\ \A exit \in {"return", "http_exception", "exception"} :
          /\ SessionFinally(get_db, exit)[1].closes = 1
          /\ SessionFinally(get_activity_db, exit)[1].closes = 1

\* a request that ended with an exception other than an HTTPException
C18_Witness ==
    /\ resp.kind = "none"
    /\ db # <<>> /\ db[1].exit = "exception" /\ db[1].closes = 1

(* C19: no analytics request changes the data store - in every step the  *)
(* tables are what they were - and every response is a result its        *)
(* request gives when it is run alone on the snapshot the store holds.   *)

C19_ErrorAlone(r) ==
    \/ \E school_id \in SchoolParams : \E order \in TopOrders(school_id) :
          r = get_school_overview(school_id, order)
    \/ \E class_id \in ClassParams : r = get_class_analytics(class_id)
    \/ \E page \in Pages, limit \in Limits :
          InvalidPaging(page, limit) # {} /\ r = ValidationError(InvalidPaging(page, limit))
    \/ \E student_id \in StudentParams :
          \/ r = get_student_assessment_history(student_id, <<>>, {})
          \/ r = get_student_webinar_history(student_id, <<>>)
          \/ \E status \in StatusParams : r = get_student_activity_history(student_id, status)
          \/ \E school_id \in SchoolParams :
                \E variation \in Variations(student_id, school_id) :
                    r = get_student_profile(student_id, school_id, variation)
    \/ \E school_id \in SchoolParams :
          \/ \E webinar_id \in WebinarIds \cup {"w0"} :
                r = get_webinar_details(webinar_id, school_id)
          \/ \E template_id \in Templates \cup {"T0"}, days \in Lookbacks :
                \E picked \in ResponseMaps(TemplateResponses(template_id, school_id, days)) :
                    r = get_assessment_details(template_id, school_id, days, picked)

C19_RunAlone(r) ==
    CASE r.kind = "none" -> TRUE
      [] r.kind = "error" -> C19_ErrorAlone(r)
      [] r.kind = "overview" ->
            \E order \in TopOrders(r.school_id) : r = get_school_overview(r.school_id, order)
      [] r.kind = "classes" -> r = get_classes_analytics(r.school_id, r.teacher_id)
      [] r.kind = "class" -> r = get_class_analytics(r.class_id)
      [] r.kind = "students" ->
            \E rows \in Perms(MatchingStudents(r.school_id, r.class_id, r.risk_filter)) :
                r = get_students_analytics(r.school_id, r.class_id, r.risk_filter,
                                           r.page, r.limit, rows)
      [] r.kind = "trends" -> r = get_school_trends(r.school_id, r.teacher_id, r.days)
      [] r.kind = "assessment_list" ->
            \E school_id \in SchoolParams, class_id \in ClassParams \cup {"NULL"},
               teacher_id \in Teachers \cup {"NULL"}, days \in Lookbacks :
                r = get_school_assessments(school_id, class_id, teacher_id, days)
      [] r.kind = "activity_list" ->
            \E school_id \in SchoolParams, class_id \in ClassParams \cup {"NULL"},
               teacher_id \in Teachers \cup {"NULL"}, days \in Lookbacks :
                r = get_school_activities(school_id, class_id, teacher_id, days)
      [] r.kind = "webinar_list" ->
            \E days \in Lookbacks :
                r = get_school_webinars(r.school_id, r.class_id, r.teacher_id, days)
      [] r.kind = "assessment_detail" ->
            \E days \in Lookbacks :
                \E picked \in ResponseMaps(TemplateResponses(r.template_id, r.school_id, days)) :
                    r = get_assessment_details(r.template_id, r.school_id, days, picked)
      [] r.kind = "webinar_detail" -> r = get_webinar_details(r.webinar_id, r.school_id)
      [] r.kind = "profile" ->
            \E school_id \in SchoolParams :
                \E variation \in Variations(r.student_id, school_id) :
                    r = get_student_profile(r.student_id, school_id, variation)
      [] r.kind = "assessment_history" ->
            \E at_cutoff \in SUBSET CutoffRows(r.student_id, r.days) :
                r = get_student_assessment_history(r.student_id, r.days, at_cutoff)
      [] r.kind = "activity_history" ->
            r = get_student_activity_history(r.student_id, r.status)
      [] r.kind = "webinar_history" ->
            \E attended \in {<<>>, <<TRUE>>, <<FALSE>>} :
                r = get_student_webinar_history(r.student_id, attended)
      [] r.kind = "leaderboard" ->
            \E order \in RankedOrders(r.school_id, r.type, r.days) :
                r = get_school_leaderboard(r.school_id, r.type, r.days,
                                           r.page, r.limit, order)
      [] OTHER -> FALSE

C20_InvitedUnion(w, school_id) ==
    {s \in StudentIds :
        /\ students[s].school = school_id
        /\ \/ \E g \in registrations :
                 /\ g.webinar = w /\ g.school = school_id
                 /\ (g.class_ids = {} \/ students[s].class_id \in g.class_ids)
           \/ \E x \in attendance : x.webinar = w /\ x.student = s}

C20_ListInvitedIsDetailInvited ==
    (resp.kind = "webinar_list" /\ resp.class_id = "NULL" /\ resp.teacher_id = "NULL") =>
        \A w \in DOMAIN resp.webinars :
            /\ resp.webinars[w].totalStudentsInvited =
                  Cardinality(C20_InvitedUnion(w, resp.school_id))
            /\ resp.webinars[w].totalStudentsInvited =
                  get_webinar_details(w, resp.school_id).totalStudentsInvited

(* C21: for every day of a trend series and each family the percentage is *)
(* min(100, round(d / cohort_size * 100, 1)), d being the number of       *)
(* distinct cohort students with at least one event of the family dated   *)
(* that day (a completed response, a submission, an attended webinar      *)
(* row); events of other days change nothing of the entry.                *)

C21_Cohort(r) ==
    {s \in StudentIds :
        /\ students[s].school = r.school_id
        /\ r.teacher_id # "NULL" =>
              /\ students[s].class_id # "NULL"
              /\ ClassTable[students[s].class_id].teacher_id = r.teacher_id}

C21_IsPctOf(t, d, n) ==
    IF d >= n THEN t = 1000
    ELSE /\ 2 * (t * n - 1000 * d) <= n /\ 2 * (1000 * d - t * n) <= n
         /\ (2 * (t * n - 1000 * d) = n \/ 2 * (1000 * d - t * n) = n) => t % 2 = 0

C21_TrendCountsDistinctStudents ==
    resp.kind = "trends" =>
        \A i \in DOMAIN resp.trends :
            LET e == resp.trends[i]
                cohort == C21_Cohort(resp)
                n == Cardinality(cohort)
                answered == {s \in cohort : \E x \in responses :
                                x.student = s /\ x.completed = <<e.date>>}
                submitted == {s \in cohort : \E x \in submissions :
                                x.student = s /\ x.submitted = <<e.date>>}
                attended == {s \in cohort : \E x \in attendance :
                                x.student = s /\ x.attended /\ x.created = e.date}
            IN  /\ C21_IsPctOf(e.assessments, Cardinality(answered), n)
                /\ C21_IsPctOf(e.activities, Cardinality(submitted), n)
                /\ C21_IsPctOf(e.webinars, Cardinality(attended), n)

(* C22: a count of completed activities counts only the submissions with *)
(* status SUBMITTED or VERIFIED: in the class list, in the student list  *)
(* and in the profile (activitiesCount) a PENDING or REJECTED submission *)
(* adds nothing.                                                         *)

C22_CompletedOf(cohort) ==
    Cardinality({x \in submissions :
        x.student \in cohort /\ x.status \in {"SUBMITTED", "VERIFIED"}})

\* the part of C22 about the class list and the student list
C22_ListsCountCompletedOnly ==
    /\ resp.kind = "classes" =>
          \A c \in DOMAIN resp.classes :
              resp.classes[c].activities.done =
                  C22_CompletedOf({s \in StudentIds : students[s].class_id = c})
    /\ resp.kind = "students" =>
          \A i \in DOMAIN resp.students :
              resp.students[i].activities_completed =
                  C22_CompletedOf({resp.students[i].student_id})

C22_CompletedCountsOnlySubmittedOrVerified ==
    /\ C22_ListsCountCompletedOnly
    /\ resp.kind = "profile" =>
          resp.stats.activitiesCount = C22_CompletedOf({resp.student_id})

(* C23: the overview's activity completion rate is                       *)
(* round(done / total * 100, 1), total being the number of activity      *)
(* assignments given to the school's students (for every class its       *)
(* assigned activities times its students) and done the number of their  *)
(* SUBMITTED or VERIFIED submissions, and 0 when total is 0.             *)

RECURSIVE C23_Assigned(_, _)
C23_Assigned(school_id, classes) ==
    IF classes = {} THEN 0
    ELSE LET c == CHOOSE x \in classes : TRUE
             roster == {s \in StudentIds :
                          students[s].school = school_id /\ students[s].class_id = c}
             activities == {a.activity : a \in {x \in assignments : x.class_id = c}}
         IN  Cardinality(activities) * Cardinality(roster)
                + C23_Assigned(school_id, classes \ {c})

C23_SubmittedByAssignees ==
    \A x \in submissions :
        \E a \in assignments : /\ a.assignment_id = x.assignment
                               /\ students[x.student].class_id = a.class_id

C23_OverviewRateUsesAssignedTotal ==
    (resp.kind = "overview" /\ resp.total_students > 0 /\ C23_SubmittedByAssignees) =>
        LET total == C23_Assigned(resp.school_id, {"c1", "c2"})
            done == C22_CompletedOf({s \in StudentIds : students[s].school = resp.school_id})
        IN  IF total = 0 THEN resp.avg_activity_completion = 0
            ELSE C17_IsRoundedPct(resp.avg_activity_completion, done, total)

(* C24: the overview's top_performers is the school's students sorted by  *)
(* current streak, highest first, cut to five: its daily_streak values    *)
(* never increase, no student left out has a strictly higher streak than  *)
(* a listed one, and it has min(5, number of students) entries, a student *)
(* without a streak summary counting with a streak of 0.                  *)

C24_Streak(s) == IF s \in DOMAIN streaks THEN streaks[s] ELSE 0

C24_TopPerformersRankWholeCohort ==
    (resp.kind = "overview" /\ resp.total_students > 0) =>
        LET top == resp.top_performers
            cohort == {s \in StudentIds : students[s].school = resp.school_id}
            listed == {top[i].student_id : i \in 1..Len(top)}
        IN  /\ \A i, j \in 1..Len(top) :
                  i < j => top[i].daily_streak >= top[j].daily_streak
            /\ \A i \in 1..Len(top) : top[i].daily_streak = C24_Streak(top[i].student_id)
            /\ listed \subseteq cohort
            /\ \A s \in cohort \ listed :
                  \A i \in 1..Len(top) : C24_Streak(s) <= top[i].daily_streak
            /\ Len(top) = (IF Cardinality(cohort) < 5 THEN Cardinality(cohort) ELSE 5)

(* C25: the profile's activity completion percentage is 0 when the        *)
(* student's class has no assignments and the student no submissions,     *)
(* 100 when the class has no assignments and the student has at least one *)
(* submission, and otherwise the student's completed (SUBMITTED or        *)
(* VERIFIED) submissions as a whole percentage of the class's T > 0       *)
(* assignments.                                                           *)

C25_ProfileCompletionFollowsZeroGuard ==
    resp.kind = "profile" =>
        LET T == Cardinality({a \in assignments :
                                a.class_id = students[resp.student_id].class_id})
            subs == {x \in submissions : x.student = resp.student_id}
            done == Cardinality({x \in subs : x.status \in {"SUBMITTED", "VERIFIED"}})
        IN  resp.stats.activitiesCompleted =
                (IF T > 0 THEN (done * 100) \div T
                 ELSE IF subs = {} THEN 0 ELSE 100)

(* C26: the student profile is a function of the snapshot: a profile      *)
(* served for a student is the profile every request for that student     *)
(* and school gives on the same snapshot, the classAverage of each        *)
(* assessment included.                                                   *)

C26_ProfileIsDetermined ==
    resp.kind = "profile" =>
        LET school_id == students[resp.student_id].school
        IN  \A variation \in Variations(resp.student_id, school_id) :
                get_student_profile(resp.student_id, school_id, variation) = resp

(* C27: no request fails with a division by zero: no response is the     *)
(* answer to a ZeroDivisionError, and where the divisor of a rate or an   *)
(* average is zero (a class without students or assigned items, no        *)
(* sessions, no submitted answers, no attendance rows, no submissions)    *)
(* the value served is 0.                                                 *)

C27_ZeroCasesServeZero ==
    /\ resp.kind = "classes" =>
          \A c \in DOMAIN resp.classes :
              \A f \in {"assessments", "activities", "webinars"} :
                  resp.classes[c][f].total = 0 => resp.classes[c][f].rate = 0
    /\ (/\ resp.kind = "class" /\ resp.total_students > 0
        /\ ~\E x \in app_sessions : students[x.student].class_id = resp.class_id) =>
          /\ resp.metrics.avg_session_time = 0
          /\ resp.metrics.avg_app_openings = 0
    /\ (resp.kind = "assessment_detail" /\ resp.studentsSubmitted = 0) =>
          resp.avgScore = 0 /\ resp.passRate = 0
    /\ (resp.kind = "webinar_history" /\ resp.total_webinars = 0) =>
          resp.attendance_rate = 0
    /\ (/\ resp.kind = "overview" /\ resp.total_students > 0
        /\ ~\E x \in submissions : students[x.student].school = resp.school_id) =>
          resp.avg_activity_completion = 0
    /\ (resp.kind = "profile"
           /\ ~\E a \in assignments : a.class_id = students[resp.student_id].class_id) =>
          resp.stats.activitiesCompleted \in {0, 100}

RECURSIVE C28_Sum(_)
C28_Sum(S) ==
    IF S = {} THEN 0
    ELSE LET x == CHOOSE y \in S : TRUE IN wellbeing[x][1] + C28_Sum(S \ {x})

C28_IsMeanOfScored(avg, cohort) ==
    LET scored == {s \in cohort : wellbeing[s] # <<>>}
        n == Cardinality(scored)
    IN  IF n = 0 THEN avg = <<>>
        ELSE /\ avg # <<>>
             /\ 2 * (avg[1] * n - 10 * C28_Sum(scored)) <= n
             /\ 2 * (10 * C28_Sum(scored) - avg[1] * n) <= n

C28_AvgWellbeingIsMeanOfNonNull ==
    /\ (resp.kind = "overview" /\ resp.total_students > 0) =>
          C28_IsMeanOfScored(resp.summary.avg_wellbeing_score,
                             {s \in StudentIds : students[s].school = resp.school_id})
    /\ resp.kind = "classes" =>
          \A c \in DOMAIN resp.classes :
              C28_IsMeanOfScored(resp.classes[c].avg_wellbeing,
                                 {s \in StudentIds : students[s].class_id = c})
    /\ (resp.kind = "class" /\ resp.total_students > 0) =>
          C28_IsMeanOfScored(resp.metrics.avg_wellbeing,
                             {s \in StudentIds : students[s].class_id = resp.class_id})

(* C29: the student list filtered by risk level holds exactly the         *)
(* students of its scope that fall into that bucket of the risk           *)
(* distribution: "high" the HIGH and CRITICAL students, "medium" the      *)
(* MEDIUM ones, "low" the students shown as low (LOW or no risk level),   *)
(* so that the three filtered totals add up to the unfiltered total.      *)

C29_Bucket(s) ==
    IF students[s].risk_level \in {"HIGH", "CRITICAL"} THEN "high"
    ELSE IF students[s].risk_level = "MEDIUM" THEN "medium"
    ELSE "low"

C29_FilterAgreesWithBuckets ==
    (resp.kind = "students" /\ resp.risk_filter \in {"low", "medium", "high"}) =>
        resp.total_students =
            Cardinality({s \in StudentIds :
                /\ students[s].school = resp.school_id
                /\ (resp.class_id # "NULL" => students[s].class_id = resp.class_id)
                /\ C29_Bucket(s) = resp.risk_filter})

(* C30: a leaderboard request whose type is none of assessments,          *)
(* activities, webinars does not fail: for a school with students it is   *)
(* answered with an empty students list, total 0 and the page and limit   *)
(* of the request, the answer a school without students gets.             *)

C30_IsEmptyPage(r, page, limit) ==
    /\ r.kind = "leaderboard"
    /\ r.students = <<>> /\ r.total = 0
    /\ r.page = page /\ r.limit = limit

C30_UnknownTypeGivesEmptyLeaderboard ==
    /\ (resp.kind = "leaderboard" /\ resp.type \notin {"assessments", "activities", "webinars"})
          => resp.students = <<>> /\ resp.total = 0
    /\ \A school_id \in Schools :
          (\E s \in StudentIds : students[s].school = school_id) =>
              \A page \in 1..(NumStudents + 1), limit \in 1..MaxLimit, days \in {0, MaxDays} :
                  LET r == get_school_leaderboard(school_id, "other", days, page, limit, <<>>)
                  IN  /\ C30_IsEmptyPage(r, page, limit)
                      /\ [r EXCEPT !.school_id = "s0"] =
                            get_school_leaderboard("s0", "other", days, page, limit, <<>>)

\* the answer to an untyped request for a school that has students
C30_Witness ==
    /\ resp.kind = "leaderboard" /\ resp.type = "other"
    /\ \E s \in StudentIds : students[s].school = resp.school_id
    /\ C30_IsEmptyPage(resp, resp.page, resp.limit)

====
